---- MODULE Spec2Model ----
(***************************************************************************)
(* A model of gition's repository working-copy manager                     *)
(* (src/backend/git_ops.py) and of the request handlers of                 *)
(* src/backend/main.py that dispatch to it.                                *)
(*                                                                         *)
(* Strings are sequences of characters.  A character is a one-character    *)
(* string; a multi-letter string such as "README" stands for a run of      *)
(* ordinary letters that contains none of the characters the code looks    *)
(* for ('/', '\', '.', '*', ':', ' ', '@').                                *)
(* A path is the sequence of its components below the filesystem root,     *)
(* each component a string.  The filesystem holds no symbolic links.       *)
(***************************************************************************)
EXTENDS Integers, Sequences, FiniteSets, TLC

(***************************************************************************)
(* Strings                                                                 *)
(***************************************************************************)

\* Python's `sub in s`.
Contains(s, sub) ==
    \E i \in 0..(Len(s) - Len(sub)) : SubSeq(s, i + 1, i + Len(sub)) = sub

MatchAt(s, i, old) ==
    /\ i + Len(old) - 1 <= Len(s)
    /\ SubSeq(s, i, i + Len(old) - 1) = old

RECURSIVE ReplaceFrom(_, _, _, _)
ReplaceFrom(s, old, new, i) ==
    IF i > Len(s) THEN <<>>
    ELSE IF MatchAt(s, i, old) THEN new \o ReplaceFrom(s, old, new, i + Len(old))
    ELSE <<s[i]>> \o ReplaceFrom(s, old, new, i + 1)

\* Python's s.replace(old, new) for a non-empty old: every non-overlapping
\* occurrence, scanning from the left.
str_replace(s, old, new) == ReplaceFrom(s, old, new, 1)

RECURSIVE SplitFrom(_, _, _, _)
SplitFrom(s, i, cur, acc) ==
    IF i > Len(s) THEN Append(acc, cur)
    ELSE IF s[i] = "/" THEN SplitFrom(s, i + 1, <<>>, Append(acc, cur))
    ELSE SplitFrom(s, i + 1, Append(cur, s[i]), acc)

\* s.split('/')
Split(s) == SplitFrom(s, 1, <<>>, <<>>)

\* str.lower() on the characters the model uses.
LowerChar(ch) ==
    CASE ch = "A" -> "a"
      [] ch = "B" -> "b"
      [] ch = "C" -> "c"
      [] ch = "Q" -> "q"
      [] ch = "PNG" -> "png"
      [] ch = "README" -> "readme"
      [] OTHER -> ch

Lower(s) == [i \in 1..Len(s) |-> LowerChar(s[i])]

\* The characters in the order of their code points.
CodePoints ==
    <<"\n", "\r", " ", ".git", ".", "A", "B", "C", "PNG", "Q", "README",
      "a", "b", "c", "d", "ignore", "png", "q", "readme", "xFF">>

Ord(ch) == CHOOSE i \in DOMAIN CodePoints : CodePoints[i] = ch

\* Python's s < t on strings.
RECURSIVE StrLess(_, _)
StrLess(s, t) ==
    IF t = <<>> THEN FALSE
    ELSE IF s = <<>> THEN TRUE
    ELSE IF s[1] = t[1] THEN StrLess(Tail(s), Tail(t))
    ELSE Ord(s[1]) < Ord(t[1])

(***************************************************************************)
(* Paths (pathlib)                                                         *)
(***************************************************************************)

Dot == <<".">>
DotDot == <<".", ".">>
GitName == <<".git">>
ReadmeName == <<"README">>
ConfigName == <<"config">>

\* The parts pathlib keeps of a string: empty and '.' components are dropped,
\* '..' components are kept.
Parts(s) == SelectSeq(Split(s), LAMBDA c : c # <<>> /\ c # Dot)

\* Path.__truediv__: an absolute right operand replaces the left one.
PathJoin(p, s) ==
    IF s # <<>> /\ s[1] = "/" THEN Parts(s) ELSE p \o Parts(s)

RECURSIVE NormFrom(_, _, _)
NormFrom(p, i, acc) ==
    IF i > Len(p) THEN acc
    ELSE IF p[i] = DotDot
         THEN NormFrom(p, i + 1,
                       IF acc = <<>> THEN <<>> ELSE SubSeq(acc, 1, Len(acc) - 1))
    ELSE NormFrom(p, i + 1, Append(acc, p[i]))

\* Path.resolve() on a filesystem without symbolic links.
Resolve(p) == NormFrom(p, 1, <<>>)

\* Path.is_relative_to: a path is relative to itself.
IsRelativeTo(p, base) ==
    /\ Len(base) <= Len(p)
    /\ SubSeq(p, 1, Len(base)) = base

Parent(p) == IF p = <<>> THEN <<>> ELSE SubSeq(p, 1, Len(p) - 1)

\* REPOS_BASE_PATH = "/repos"
REPOS_BASE_PATH == <<"/", "repos">>

\* The separators get_repo_path looks for in a component.
BadSeparators == {<<"/">>, <<"\\">>, <<".", ".">>}

HasBadSeparatorNoBackslash(s) ==
    \E sep \in {<<"/">>, <<".", ".">>} : Contains(s, sep)

HasBadSeparator(s) == \E sep \in BadSeparators : Contains(s, sep)

\* get_repo_path: ok = FALSE stands for the ValueError; io tells whether the
\* filesystem was consulted (Path.resolve) before the function ended.
get_repo_path(user_id, repo_name) ==
    IF user_id = <<>> \/ repo_name = <<>>
    THEN [ok |-> FALSE, io |-> FALSE, path |-> <<>>]
    ELSE IF HasBadSeparator(user_id)
    THEN [ok |-> FALSE, io |-> FALSE, path |-> <<>>]
    ELSE IF HasBadSeparator(repo_name)
    THEN [ok |-> FALSE, io |-> FALSE, path |-> <<>>]
    ELSE LET base_path == Resolve(PathJoin(<<>>, REPOS_BASE_PATH))
             repo_path == Resolve(PathJoin(PathJoin(base_path, user_id), repo_name))
         IN  IF ~IsRelativeTo(repo_path, base_path)
             THEN [ok |-> FALSE, io |-> TRUE, path |-> <<>>]
             ELSE [ok |-> TRUE, io |-> TRUE, path |-> repo_path]

(***************************************************************************)
(* The filesystem: a function from the paths that exist to their nodes.    *)
(* A node is a directory, a file with its text, or a control directory     *)
(* (.git) with what git records in it: the URL of remote origin, the       *)
(* checked-out branch, the local branches and the remote-tracking refs.    *)
(***************************************************************************)

NoMeta == [url |-> <<>>, head |-> "", heads |-> {}, remotes |-> <<>>, tags |-> {}]
DirNode == [kind |-> "dir", data |-> <<>>, meta |-> NoMeta]
FileNode(text) == [kind |-> "file", data |-> text, meta |-> NoMeta]
GitNode(m) == [kind |-> "git", data |-> <<>>, meta |-> m]

\* What the remote repository holds: its branches and its tracked file.
RemoteBranches == {"main", "dev"}
DefaultBranch == "main"
RemoteTags == {"v1"}

\* The order git lists references in: by name.
RefOrder == <<"HEAD", "dev", "main", "up">>
Sorted(names) == SelectSeq(RefOrder, LAMBDA n : n \in names)

\* A remote of a working copy and its remote-tracking references, each with
\* its name, remote/branch, and the commit it points at.
RemoteRef(remote, branch, sha) ==
    [name |-> <<remote, "/", branch>>, sha |-> sha]
Remote(name, branches, sha) ==
    [name |-> name,
     refs |-> [i \in 1..Len(Sorted(branches))
                  |-> RemoteRef(name, Sorted(branches)[i], sha)]]

\* What a clone knows of origin: its branches and the symbolic origin/HEAD.
Origin == Remote("origin", RemoteBranches \cup {"HEAD"}, "o")

\* A second remote, added to a working copy with git remote add and fetched:
\* it carries a branch origin has too, and one of its own.
Upstream == Remote("upstream", {"dev", "up"}, "u")

\* HEAD that points at a commit and at no branch.
DetachedHead == ""
RemoteText == <<"v1">>
RemoteTextNew == <<"v2">>

BasePath == Resolve(PathJoin(<<>>, REPOS_BASE_PATH))
EtcPath == << <<"etc">> >>
PasswdPath == << <<"etc">>, <<"passwd">> >>

Exists(f, p) == p \in DOMAIN f
IsDir(f, p) == p \in DOMAIN f /\ f[p].kind # "file"
Children(f, p) == {q \in DOMAIN f : Len(q) = Len(p) + 1 /\ IsRelativeTo(q, p)}
Subtree(f, p) == {q \in DOMAIN f : IsRelativeTo(q, p)}
Restrict(f, S) == [q \in S |-> f[q]]

\* How the operating system looks a path up: component by component, '..'
\* stepping to the parent of a directory that must exist.
RECURSIVE WalkFrom(_, _, _, _)
WalkFrom(f, p, i, cur) ==
    IF i > Len(p) THEN [ok |-> TRUE, path |-> cur]
    ELSE IF ~IsDir(f, cur) THEN [ok |-> FALSE, path |-> <<>>]
    ELSE IF p[i] = DotDot THEN WalkFrom(f, p, i + 1, Parent(cur))
    ELSE IF Append(cur, p[i]) \in DOMAIN f
         THEN WalkFrom(f, p, i + 1, Append(cur, p[i]))
    ELSE [ok |-> FALSE, path |-> <<>>]

OSWalk(f, p) == WalkFrom(f, p, 1, <<>>)

\* Path.mkdir(parents=True, exist_ok=True)
Prefixes(p) == {SubSeq(p, 1, n) : n \in 0..Len(p)}
MkdirParents(f, p) ==
    [q \in (Prefixes(p) \ DOMAIN f) |-> DirNode] @@ f

\* shutil.rmtree when it succeeds.
rmtree_contents(f, p) == Restrict(f, DOMAIN f \ (Subtree(f, p) \ {p}))

rmtree(f, p) == Restrict(f, DOMAIN f \ Subtree(f, p))

\* What a shutil.rmtree that raises can leave: nothing removed, or the
\* control directory removed before the entry that failed.
rmtree_failed(f, p) == {f, rmtree(f, Append(p, <<".git">>))}

\* The working copy git writes on a successful clone of `url` into `p`.
ClonedMeta(url) ==
    [url |-> url, head |-> DefaultBranch, heads |-> {DefaultBranch},
     remotes |-> <<Origin>>, tags |-> RemoteTags]
\* The control directory git writes, with the file that records the URL of
\* remote origin as git was given it.
ControlDir(p, url) ==
    (Append(p, GitName) :> GitNode(ClonedMeta(url)))
    @@ (Append(Append(p, GitName), ConfigName)
            :> FileNode(<<"url", " ", "=", " ">> \o url))

ClonedTree(p, url) ==
    (p :> DirNode)
    @@ ControlDir(p, url)
    @@ (Append(p, ReadmeName) :> FileNode(RemoteText))

\* git clone refuses a destination that exists and is not an empty directory.
CanCloneInto(f, p) ==
    IF Exists(f, p) THEN f[p].kind = "dir" /\ Children(f, p) = {} ELSE TRUE

\* What a failed git clone can leave behind at `p`: nothing new, or the
\* directory with its control directory and no checked-out file.
CloneLeftovers(f, p, url) ==
    IF ~CanCloneInto(f, p) THEN {f}
    ELSE {f,
          (p :> DirNode) @@ ControlDir(p, url) @@ f}

\* repo_path.exists() and (repo_path / ".git").exists()
AlreadyClonedWrongDir(f, p) ==
    Exists(f, p) /\ Exists(f, Append(Parent(p), GitName))

AlreadyCloned(f, p) == Exists(f, p) /\ Exists(f, Append(p, GitName))

\* Repo(repo_path): a repository object when the path holds a control
\* directory, InvalidGitRepositoryError / NoSuchPathError otherwise.
OpensAsRepo(f, p) ==
    /\ IsDir(f, p)
    /\ Exists(f, Append(p, GitName))
    /\ f[Append(p, GitName)].kind = "git"

(***************************************************************************)
(* Inputs of the calls                                                     *)
(***************************************************************************)

\* Bounds of the model.
MaxStderrLen == 1

RECURSIVE StringsUpTo(_, _)
StringsUpTo(chars, n) ==
    IF n = 0 THEN {<<>>}
    ELSE LET shorter == StringsUpTo(chars, n - 1)
         IN  shorter \cup {Append(x, c) : x \in shorter, c \in chars}

\* Pairs of identifiers: non-empty ones without '/', '\' or '..', and pairs
\* with an identifier that is empty or holds one of them.
GoodPairs == {<< <<"a">>, <<"a">> >>, << <<".">>, <<"a">> >>}
BadPairs ==
    {<< <<>>, <<"a">> >>, << <<"a">>, <<".", ".">> >>,
     << <<"a", "/", "b">>, <<"a">> >>, << <<"a">>, <<"a", "\\", "b">> >>}
CallPairs == GoodPairs \cup BadPairs

CloneUrls == {<<"https://", "h">>}
AccessTokens == {<<"t">>}

\* What git can print on its standard error.
GitStderr == StringsUpTo({"t", "*"}, MaxStderrLen)

(***************************************************************************)
(* State: the filesystem, the outcome of the call made last, the calls     *)
(* that run in the worker threads of asyncio.to_thread, the credential of  *)
(* the request a handler serves, and the rows of table branch_pages.       *)
(***************************************************************************)
VARIABLES fs, last, inflight, request, pages, pool

vars == <<fs, last, inflight, request, pages, pool>>

NoCall ==
    [op |-> "none", user_id |-> <<>>, repo_name |-> <<>>, arg |-> <<>>,
     clone_url |-> <<>>, access_token |-> <<>>,
     status |-> "none", message |-> <<>>,
     accepted |-> FALSE, repo_path |-> <<>>, io |-> FALSE,
     reads |-> {}, value |-> FALSE, content |-> <<>>, branches |-> <<>>,
     given |-> <<>>, page |-> <<>>,
     files |-> <<>>, binary |-> FALSE, size |-> <<>>,
     results |-> <<>>, total |-> <<>>]

Call(op, user_id, repo_name) ==
    [NoCall EXCEPT !.op = op, !.user_id = user_id, !.repo_name = repo_name]

\* The call ends in get_repo_path's ValueError.
Rejected(c, g) == [c EXCEPT !.status = "raised", !.io = g.io]

\* The call got its repo_path.
Accepted(c, g) ==
    [c EXCEPT !.accepted = TRUE, !.repo_path = g.path, !.io = TRUE]

Msg(text) == <<text>>

InitFs ==
    (<<>> :> DirNode)
    @@ (BasePath :> DirNode)
    @@ (EtcPath :> DirNode)
    @@ (PasswdPath :> FileNode(<<"root">>))

\* Worker threads of the default executor that asyncio.to_thread uses.
NWorkers == 2
Workers == 1..NWorkers

\* A worker thread with no call to run.
Idle ==
    [op |-> "none", pc |-> "idle", status |-> "none", message |-> <<>>,
     files |-> {}, intact |-> FALSE, partial |-> FALSE, removed |-> FALSE,
     arg |-> <<>>, created |-> FALSE]

\* _pool: Optional[aiomysql.Pool] = None, and the pools aiomysql has made:
\* held is empty or the number of the pool held, made tells of each pool
\* whether it is open or closed.
NoPool == [held |-> <<>>, made |-> <<>>]

\* No request served yet: what get_token finds is None.
NoRequest == [token |-> <<>>, status |-> "none"]

Init ==
    /\ fs = InitFs
    /\ last = NoCall
    /\ inflight = [w \in Workers |-> Idle]
    /\ request = NoRequest
    /\ pages = <<>>
    /\ pool = NoPool

(***************************************************************************)
(* clone_repo                                                              *)
(***************************************************************************)

Placeholder == <<"*", "*", "*">>
ClonePrefix == <<"Clone failed", ":", " ">>

\* auth_url = clone_url.replace("https://", f"https://{access_token}@")
AuthUrl(clone_url, access_token) ==
    str_replace(clone_url, <<"https://">>, <<"https://">> \o access_token \o <<"@">>)

\* str(e) of the GitCommandError of a failed clone: the command line, which
\* holds the URL it was given, and git's standard error.
CloneErrorTexts(auth_url) ==
    {<<"git clone", " ">> \o auth_url \o <<" ", "stderr", ":", " ">> \o err :
        err \in GitStderr}

SanitizeFirstOnly(e, access_token) ==
    IF access_token # <<>> /\ Contains(e, access_token)
    THEN LET i == CHOOSE j \in 1..Len(e) :
                    /\ MatchAt(e, j, access_token)
                    /\ \A k \in 1..(j - 1) : ~MatchAt(e, k, access_token)
         IN  SubSeq(e, 1, i - 1) \o Placeholder
                 \o SubSeq(e, i + Len(access_token), Len(e))
    ELSE e

\* error_msg = str(e).replace(access_token, "***") if access_token else str(e)
Sanitize(e, access_token) ==
    IF access_token # <<>> THEN str_replace(e, access_token, Placeholder) ELSE e

CleanupSkipped(f, p) == {[fs |-> f, raised |-> FALSE]}

\* if repo_path.exists(): shutil.rmtree(repo_path)
\* The outcomes: the filesystem left, and whether rmtree raised.
Cleanup(f, p) ==
    IF Exists(f, p)
    THEN {[fs |-> rmtree(f, p), raised |-> FALSE]}
         \cup {[fs |-> g, raised |-> TRUE] : g \in rmtree_failed(f, p)}
    ELSE {[fs |-> f, raised |-> FALSE]}

clone_repo(clone_url, access_token, user_id, repo_name) ==
    LET g == get_repo_path(user_id, repo_name)
        c == [Call("clone_repo", user_id, repo_name)
                 EXCEPT !.clone_url = clone_url, !.access_token = access_token]
    IN
    IF ~g.ok THEN
        /\ last' = Rejected(c, g)
        /\ fs' = fs
    ELSE IF AlreadyCloned(fs, g.path) THEN
        /\ last' = [Accepted(c, g) EXCEPT !.status = "exists",
                        !.message = Msg("Repository already cloned")]
        /\ fs' = fs
    ELSE
        LET made == MkdirParents(fs, Parent(g.path))
            auth_url == AuthUrl(clone_url, access_token)
        IN
        \/ \* Repo.clone_from succeeds
           /\ CanCloneInto(made, g.path)
           /\ fs' = ClonedTree(g.path, auth_url) @@ made
           /\ last' = [Accepted(c, g) EXCEPT !.status = "success",
                           !.message = Msg("Repository cloned successfully")]
        \/ \* Repo.clone_from raises GitCommandError
           \E left \in CloneLeftovers(made, g.path, auth_url),
              e \in CloneErrorTexts(auth_url) :
             \E out \in Cleanup(left, g.path) :
                /\ fs' = out.fs
                /\ last' = IF out.raised
                           THEN [Accepted(c, g) EXCEPT !.status = "raised"]
                           ELSE [Accepted(c, g) EXCEPT !.status = "error",
                                    !.value = Exists(left, g.path),
                                    !.content = e,
                                    !.message = ClonePrefix \o Sanitize(e, access_token)]

CloneRepo ==
    /\ \E url \in CloneUrls, tok \in AccessTokens, pr \in CallPairs :
          clone_repo(url, tok, pr[1], pr[2])
    /\ UNCHANGED <<inflight, request, pages, pool>>

(***************************************************************************)
(* is_cloned, delete_repo                                                  *)
(***************************************************************************)

is_cloned_dir_only(user_id, repo_name) ==
    LET g == get_repo_path(user_id, repo_name)
        c == Call("is_cloned", user_id, repo_name)
    IN
    /\ fs' = fs
    /\ last' = IF ~g.ok THEN Rejected(c, g)
               ELSE [Accepted(c, g) EXCEPT !.status = "returned",
                        !.value = Exists(fs, g.path)]

is_cloned(user_id, repo_name) ==
    LET g == get_repo_path(user_id, repo_name)
        c == Call("is_cloned", user_id, repo_name)
    IN
    /\ fs' = fs
    /\ last' = IF ~g.ok THEN Rejected(c, g)
               ELSE [Accepted(c, g) EXCEPT !.status = "returned",
                        !.value = (Exists(fs, g.path)
                                   /\ Exists(fs, Append(g.path, GitName)))]

IsCloned ==
    /\ \E pr \in CallPairs : is_cloned(pr[1], pr[2])
    /\ UNCHANGED <<inflight, request, pages, pool>>

delete_repo(user_id, repo_name) ==
    LET g == get_repo_path(user_id, repo_name)
        c == Call("delete_repo", user_id, repo_name)
    IN
    IF ~g.ok THEN
        /\ last' = Rejected(c, g)
        /\ fs' = fs
    ELSE IF ~Exists(fs, g.path) THEN
        /\ last' = [Accepted(c, g) EXCEPT !.status = "error",
                        !.message = Msg("Repository not found")]
        /\ fs' = fs
    ELSE
        \/ /\ fs' = rmtree(fs, g.path)
           /\ last' = [Accepted(c, g) EXCEPT !.status = "success",
                           !.message = Msg("Repository deleted")]
        \/ /\ fs' \in rmtree_failed(fs, g.path)
           /\ last' = [Accepted(c, g) EXCEPT !.status = "error",
                           !.message = Msg("OSError")]

DeleteRepo ==
    /\ \E pr \in CallPairs : delete_repo(pr[1], pr[2])
    /\ UNCHANGED <<inflight, request, pages, pool>>

(***************************************************************************)
(* pull_repo                                                               *)
(***************************************************************************)

\* origin.pull() fast-forwards the checked-out branch: the tracked file
\* takes the remote's text.
PulledTree(f, p) == (Append(p, ReadmeName) :> FileNode(RemoteTextNew)) @@ f

\* str(e) of the GitCommandError of a failed pull: the command line and git's
\* standard error, which can quote the URL of the remote.
PullErrorTexts(url) ==
    {<<"git pull", " ", "stderr", ":", " ">> \o err : err \in GitStderr \cup {url}}

pull_repo(user_id, repo_name) ==
    LET g == get_repo_path(user_id, repo_name)
        c == Call("pull_repo", user_id, repo_name)
    IN
    IF ~g.ok THEN
        /\ last' = Rejected(c, g)
        /\ fs' = fs
    ELSE IF ~Exists(fs, g.path) THEN
        /\ last' = [Accepted(c, g) EXCEPT !.status = "error",
                        !.message = Msg("Repository not cloned")]
        /\ fs' = fs
    ELSE IF ~OpensAsRepo(fs, g.path) THEN
        \* Repo(repo_path) raises InvalidGitRepositoryError, which is no
        \* GitCommandError
        /\ last' = [Accepted(c, g) EXCEPT !.status = "raised"]
        /\ fs' = fs
    ELSE
        \/ /\ fs' = PulledTree(fs, g.path)
           /\ last' = [Accepted(c, g) EXCEPT !.status = "success",
                           !.message = Msg("Repository updated successfully")]
        \/ \E e \in PullErrorTexts(fs[Append(g.path, GitName)].meta.url) :
              /\ fs' = fs
              /\ last' = [Accepted(c, g) EXCEPT !.status = "error",
                              !.message = <<"Pull failed", ":", " ">> \o e]

(***************************************************************************)
(* list_files, read_file, search_files                                     *)
(***************************************************************************)

Name(p) == p[Len(p)]

\* item.name.startswith(".git")
IsGitName(name) == MatchAt(name, 1, GitName)

\* target_path = repo_path / subpath if subpath else repo_path
ListTarget(repo_path, subpath) ==
    IF subpath # <<>> THEN PathJoin(repo_path, subpath) ELSE repo_path

\* item.stat().st_size: every character of the model is one byte.
st_size(data) == Len(data)

\* The dict list_files makes of an item of target_path.
FileEntry(f, item, repo_path, target_path) ==
    [name |-> Name(item),
     type |-> IF f[item].kind # "file" THEN "directory" ELSE "file",
     size |-> IF f[item].kind = "file" THEN <<st_size(f[item].data)>> ELSE <<>>,
     path |-> SubSeq(Append(target_path, Name(item)),
                     Len(repo_path) + 1, Len(target_path) + 1)]

SortKeyLessCaseSensitive(x, y) ==
    IF (x.type # "directory") # (y.type # "directory")
    THEN x.type = "directory"
    ELSE StrLess(x.name, y.name)

\* key=lambda x: (x["type"] != "directory", x["name"].lower())
SortKeyLess(x, y) ==
    IF (x.type # "directory") # (y.type # "directory")
    THEN x.type = "directory"
    ELSE StrLess(Lower(x.name), Lower(y.name))

\* list.sort is stable: x goes behind every entry whose key is not greater.
RECURSIVE InsertByKey(_, _)
InsertByKey(sorted, x) ==
    IF sorted = <<>> THEN <<x>>
    ELSE IF SortKeyLess(x, sorted[Len(sorted)])
         THEN Append(InsertByKey(SubSeq(sorted, 1, Len(sorted) - 1), x),
                     sorted[Len(sorted)])
         ELSE Append(sorted, x)

RECURSIVE SortFrom(_, _, _)
SortFrom(files, i, acc) ==
    IF i > Len(files) THEN acc
    ELSE SortFrom(files, i + 1, InsertByKey(acc, files[i]))

\* files.sort(key=...)
SortFiles(files) == SortFrom(files, 1, <<>>)

SkippedNever(name) == FALSE

\* if item.name.startswith(".git"): continue
Skipped(name) == IsGitName(name)

\* The orders target_path.iterdir() can yield the items in.
RECURSIVE IterdirOrders(_)
IterdirOrders(items) ==
    IF items = {} THEN {<<>>}
    ELSE UNION {{<<x>> \o o : o \in IterdirOrders(items \ {x})} : x \in items}

\* The list of dicts list_files returns for the items in iterdir order.
ListedFiles(f, order, repo_path, target_path) ==
    LET kept == SelectSeq(order, LAMBDA item : ~Skipped(Name(item)))
    IN  SortFiles([i \in 1..Len(kept) |->
                      FileEntry(f, kept[i], repo_path, target_path)])

list_files(user_id, repo_name, subpath) ==
    LET g == get_repo_path(user_id, repo_name)
        c == [Call("list_files", user_id, repo_name) EXCEPT !.arg = subpath]
    IN
    /\ fs' = fs
    /\ \E files \in
          IF g.ok /\ OSWalk(fs, ListTarget(g.path, subpath)).ok
                  /\ IsDir(fs, OSWalk(fs, ListTarget(g.path, subpath)).path)
          THEN {ListedFiles(fs, o, g.path, ListTarget(g.path, subpath)) :
                  o \in IterdirOrders(
                      Children(fs, OSWalk(fs, ListTarget(g.path, subpath)).path))}
          ELSE {<<>>} :
       last' =
        IF ~g.ok THEN Rejected(c, g)
        ELSE
        LET target_path == ListTarget(g.path, subpath)
            w == OSWalk(fs, target_path)
        IN
        IF ~Exists(fs, g.path)
        THEN [Accepted(c, g) EXCEPT !.status = "error",
                 !.message = Msg("Repository not cloned")]
        ELSE IF ~w.ok
        THEN [Accepted(c, g) EXCEPT !.status = "error",
                 !.message = Msg("Path not found")]
        ELSE IF fs[w.path].kind = "file"
        THEN \* iterdir raises NotADirectoryError
             [Accepted(c, g) EXCEPT !.status = "error",
                 !.message = Msg("NotADirectoryError")]
        ELSE
        LET items == {q \in Children(fs, w.path) : ~Skipped(Name(q))}
        IN  IF items # {} /\ ~IsRelativeTo(target_path, g.path)
            THEN \* item.relative_to(repo_path) raises ValueError
                 [Accepted(c, g) EXCEPT !.status = "error",
                     !.message = Msg("ValueError"), !.reads = {w.path}]
            ELSE [Accepted(c, g) EXCEPT !.status = "success",
                     !.reads = {w.path} \cup items,
                     !.files = files]

\* BINARY_EXTENSIONS, the members the model's names can have
BINARY_EXTENSIONS == {<<".", "png">>, <<".", "a">>}

\* PurePath.suffix: from the last dot of the name, when that dot is neither
\* the first nor the last character.
Suffix(name) ==
    LET dots == {i \in 1..Len(name) : name[i] = "."}
    IN  IF dots = {} THEN <<>>
        ELSE LET i == CHOOSE k \in dots : \A h \in dots : h <= k
             IN  IF i > 1 /\ i < Len(name) THEN SubSeq(name, i, Len(name))
                 ELSE <<>>

\* target_file.suffix.lower() in BINARY_EXTENSIONS
SuffixLowerInSet(name) == Lower(Suffix(name)) \in BINARY_EXTENSIONS

HasBinarySuffix(path) == path # <<>> /\ SuffixLowerInSet(Name(path))

\* bytes.decode('utf-8') succeeds
DecodesAsUtf8(data) == \A i \in 1..Len(data) : data[i] # "xFF"

\* Text mode with newline=None: "\r\n" and "\r" are read as "\n".
RECURSIVE UniversalNewlines(_)
UniversalNewlines(data) ==
    IF data = <<>> THEN <<>>
    ELSE IF data[1] = "\r"
         THEN IF Len(data) > 1 /\ data[2] = "\n"
              THEN <<"\n">> \o UniversalNewlines(SubSeq(data, 3, Len(data)))
              ELSE <<"\n">> \o UniversalNewlines(Tail(data))
    ELSE <<data[1]>> \o UniversalNewlines(Tail(data))

\* target_file.read_text(encoding='utf-8') of a file that decodes
read_text(data) == UniversalNewlines(data)

read_file(user_id, repo_name, file_path) ==
    LET g == get_repo_path(user_id, repo_name)
        c == [Call("read_file", user_id, repo_name) EXCEPT !.arg = file_path]
    IN
    /\ fs' = fs
    /\ last' =
        IF ~g.ok THEN Rejected(c, g)
        ELSE
        LET target_file == Resolve(PathJoin(g.path, file_path))
        IN
        IF ~IsRelativeTo(target_file, g.path)
        THEN [Accepted(c, g) EXCEPT !.status = "error",
                 !.message = Msg("Access denied: outside repository")]
        ELSE IF ~Exists(fs, target_file)
        THEN \* stat() or read_text() raises
             [Accepted(c, g) EXCEPT !.status = "error",
                 !.message = Msg("FileNotFoundError")]
        ELSE IF HasBinarySuffix(target_file)
        THEN [Accepted(c, g) EXCEPT !.status = "success",
                 !.reads = {target_file},
                 !.binary = TRUE,
                 !.size = <<st_size(fs[target_file].data)>>]
        ELSE IF fs[target_file].kind # "file"
        THEN [Accepted(c, g) EXCEPT !.status = "error",
                 !.message = Msg("IsADirectoryError")]
        ELSE IF ~DecodesAsUtf8(fs[target_file].data)
        THEN \* except UnicodeDecodeError
             [Accepted(c, g) EXCEPT !.status = "success",
                 !.reads = {target_file},
                 !.binary = TRUE,
                 !.size = <<st_size(fs[target_file].data)>>]
        ELSE [Accepted(c, g) EXCEPT !.status = "success",
                 !.reads = {target_file},
                 !.binary = FALSE,
                 !.size = <<st_size(fs[target_file].data)>>,
                 !.content = read_text(fs[target_file].data)]

\* The files repo_path.rglob("*") yields that search_files looks into: not
\* below a component named .git, and no directories.
SearchedFiles(f, repo_path) ==
    {q \in Subtree(f, repo_path) :
        /\ q # repo_path
        /\ \A i \in 1..Len(q) : q[i] # GitName
        /\ f[q].kind = "file"}

\* max_results: int = 50
DefaultMaxResults == 50

\* bytes.decode('utf-8', errors='ignore'): the invalid bytes are dropped
DecodeIgnoring(data) == SelectSeq(data, LAMBDA ch : ch # "xFF")

RECURSIVE SplitLinesFrom(_, _, _, _)
SplitLinesFrom(s, i, cur, acc) ==
    IF i > Len(s) THEN Append(acc, cur)
    ELSE IF s[i] = "\n" THEN SplitLinesFrom(s, i + 1, <<>>, Append(acc, cur))
    ELSE SplitLinesFrom(s, i + 1, Append(cur, s[i]), acc)

\* file_path.read_text(encoding='utf-8', errors='ignore').split('\n')
LinesOf(data) == SplitLinesFrom(UniversalNewlines(DecodeIgnoring(data)), 1, <<>>, <<>>)

\* line.strip(), for lines of at most 200 characters
RECURSIVE Strip(_)
Strip(line) ==
    IF line = <<>> THEN <<>>
    ELSE IF line[1] = " " THEN Strip(Tail(line))
    ELSE IF line[Len(line)] = " " THEN Strip(SubSeq(line, 1, Len(line) - 1))
    ELSE line

FullNever(results, max_results) == FALSE

\* len(results) >= max_results
Full(results, max_results) == Len(results) >= max_results

FilenameResult(file_path, repo_path) ==
    [type |-> "filename",
     path |-> SubSeq(file_path, Len(repo_path) + 1, Len(file_path)),
     name |-> Name(file_path), match |-> Name(file_path),
     line |-> <<>>, context |-> <<>>]

ContentResult(file_path, repo_path, query, line_num, line) ==
    [type |-> "content",
     path |-> SubSeq(file_path, Len(repo_path) + 1, Len(file_path)),
     name |-> Name(file_path), match |-> query,
     line |-> <<line_num>>, context |-> Strip(line)]

\* for line_num, line in enumerate(lines, 1): ...
RECURSIVE ScanLines(_, _, _, _, _, _, _)
ScanLines(lines, line_num, file_path, repo_path, query, max_results, results) ==
    IF line_num > Len(lines) THEN results
    ELSE IF Full(results, max_results) THEN results
    ELSE ScanLines(lines, line_num + 1, file_path, repo_path, query, max_results,
             IF Contains(Lower(lines[line_num]), Lower(query))
             THEN Append(results,
                     ContentResult(file_path, repo_path, query, line_num,
                                   lines[line_num]))
             ELSE results)

NameMatchesCaseSensitive(filename, query) == Contains(filename, query)

\* query_lower in filename.lower()
NameMatches(filename, query) == Contains(Lower(filename), Lower(query))

\* for file_path in repo_path.rglob("*"): ..., over the files of the walk
\* that are not skipped, in the order the walk yields them.
RECURSIVE SearchFrom(_, _, _, _, _, _, _, _)
SearchFrom(f, order, k, repo_path, query, search_content, max_results, results) ==
    IF k > Len(order) THEN results
    ELSE IF Full(results, max_results) THEN results
    ELSE SearchFrom(f, order, k + 1, repo_path, query, search_content, max_results,
             IF NameMatches(Name(order[k]), query)
             THEN Append(results, FilenameResult(order[k], repo_path))
             ELSE IF search_content /\ ~SuffixLowerInSet(Name(order[k]))
             THEN ScanLines(LinesOf(f[order[k]].data), 1, order[k], repo_path,
                            query, max_results, results)
             ELSE results)

SearchResults(f, order, repo_path, query, search_content, max_results) ==
    SearchFrom(f, order, 1, repo_path, query, search_content, max_results, <<>>)

\* The orders repo_path.rglob("*") can yield the searched files in.
RglobOrders(f, repo_path) == IterdirOrders(SearchedFiles(f, repo_path))

search_files(user_id, repo_name, query, search_content, max_results) ==
    LET g == get_repo_path(user_id, repo_name)
        c == [Call("search_files", user_id, repo_name) EXCEPT !.arg = query]
    IN
    /\ fs' = fs
    /\ \E order \in IF g.ok /\ Exists(fs, g.path)
                     THEN RglobOrders(fs, g.path) ELSE {<<>>} :
       last' =
        IF ~g.ok THEN Rejected(c, g)
        ELSE IF ~Exists(fs, g.path)
        THEN [Accepted(c, g) EXCEPT !.status = "error",
                 !.message = Msg("Repository not cloned")]
        ELSE LET results == SearchResults(fs, order, g.path, query,
                                          search_content, max_results)
             IN  [Accepted(c, g) EXCEPT !.status = "success",
                     !.reads = SearchedFiles(fs, g.path),
                     !.given = <<[order |-> order,
                                  search_content |-> search_content,
                                  max_results |-> max_results]>>,
                     !.results = results,
                     !.total = <<Len(results)>>]

(***************************************************************************)
(* get_commits, get_branches, checkout_branch                              *)
(***************************************************************************)

get_commits(user_id, repo_name) ==
    LET g == get_repo_path(user_id, repo_name)
        c == Call("get_commits", user_id, repo_name)
    IN
    /\ fs' = fs
    /\ last' =
        IF ~g.ok THEN Rejected(c, g)
        ELSE IF ~Exists(fs, g.path)
        THEN [Accepted(c, g) EXCEPT !.status = "error",
                 !.message = Msg("Repository not cloned")]
        ELSE IF ~OpensAsRepo(fs, g.path)
        THEN [Accepted(c, g) EXCEPT !.status = "error",
                 !.message = Msg("InvalidGitRepositoryError")]
        ELSE [Accepted(c, g) EXCEPT !.status = "success"]

\* ref.name.endswith('/HEAD')
EndsWithHead(name) ==
    Len(name) >= 2 /\ name[Len(name) - 1] = "/" /\ name[Len(name)] = "HEAD"

\* ref.name.split('/', 1)[1] if '/' in ref.name else ref.name
ShortName(name) ==
    IF \E i \in 1..Len(name) : name[i] = "/"
    THEN LET i == CHOOSE k \in 1..Len(name) :
                     name[k] = "/" /\ \A h \in 1..(k - 1) : name[h] # "/"
         IN  SubSeq(name, i + 1, Len(name))
    ELSE name

\* The entries of the local branches, in the order of repo.branches.
LocalEntries(m) ==
    [i \in 1..Len(Sorted(m.heads)) |->
        [name |-> <<Sorted(m.heads)[i]>>, type |-> "local",
         is_current |-> (m.head # DetachedHead /\ Sorted(m.heads)[i] = m.head),
         commit_sha |-> "l"]]

HasEntry(branches, name, type) ==
    \E k \in 1..Len(branches) :
        branches[k].name = name /\ branches[k].type = type

SkipsRefLocalOnly(branches, name) == HasEntry(branches, name, "local")

\* if not any(b['name'] == branch_name and b['type'] == 'local' ...):
\*     if not any(b['name'] == branch_name and b['type'] == 'remote' ...):
SkipsRef(branches, name) ==
    HasEntry(branches, name, "local") \/ HasEntry(branches, name, "remote")

\* for ref in remote.refs: ...
RECURSIVE AddRefs(_, _, _)
AddRefs(branches, refs, i) ==
    IF i > Len(refs) THEN branches
    ELSE IF EndsWithHead(refs[i].name) \/ SkipsRef(branches, ShortName(refs[i].name))
    THEN AddRefs(branches, refs, i + 1)
    ELSE AddRefs(Append(branches,
                        [name |-> ShortName(refs[i].name), type |-> "remote",
                         is_current |-> FALSE, commit_sha |-> refs[i].sha]),
                 refs, i + 1)

\* for remote in repo.remotes: ...
RECURSIVE AddRemotes(_, _, _)
AddRemotes(branches, remotes, r) ==
    IF r > Len(remotes) THEN branches
    ELSE AddRemotes(AddRefs(branches, remotes[r].refs, 1), remotes, r + 1)

get_branches(user_id, repo_name) ==
    LET g == get_repo_path(user_id, repo_name)
        c == Call("get_branches", user_id, repo_name)
    IN
    /\ fs' = fs
    /\ last' =
        IF ~g.ok THEN Rejected(c, g)
        ELSE IF ~Exists(fs, g.path)
        THEN [Accepted(c, g) EXCEPT !.status = "error",
                 !.message = Msg("Repository not cloned")]
        ELSE IF ~OpensAsRepo(fs, g.path)
        THEN [Accepted(c, g) EXCEPT !.status = "error",
                 !.message = Msg("InvalidGitRepositoryError")]
        ELSE LET m == fs[Append(g.path, GitName)].meta
             IN  [Accepted(c, g) EXCEPT !.status = "success",
                     !.content = IF m.head = DetachedHead THEN <<>> ELSE <<m.head>>,
                     !.branches = AddRemotes(LocalEntries(m), m.remotes, 1)]

\* Whether remote `name` of the working copy has branch `branch_name`.
RemoteHas(m, name, branch_name) ==
    \E r \in 1..Len(m.remotes) :
        /\ m.remotes[r].name = name
        /\ \E k \in 1..Len(m.remotes[r].refs) :
              m.remotes[r].refs[k].name = <<name, "/", branch_name>>

\* The control directory after `git checkout branch_name` /
\* `git checkout -b branch_name origin/branch_name`.
CheckedOut(m, branch_name) ==
    [m EXCEPT !.head = branch_name, !.heads = @ \cup {branch_name}]

\* repo.git.checkout(branch_name) of a name that is no local branch and no
\* branch of origin.  git takes the name for the branch of the one remote
\* that has it, and makes a local branch of it; or for a tag, and detaches
\* HEAD at it; or fails.
CheckoutByName(m, branch_name) ==
    LET carriers == {r \in 1..Len(m.remotes) :
                        RemoteHas(m, m.remotes[r].name, branch_name)}
    IN  IF Cardinality(carriers) = 1
        THEN [ok |-> TRUE, meta |-> CheckedOut(m, branch_name)]
        ELSE IF branch_name \in m.tags
        THEN [ok |-> TRUE, meta |-> [m EXCEPT !.head = DetachedHead]]
        ELSE [ok |-> FALSE, meta |-> m]

checkout_branch(user_id, repo_name, branch_name) ==
    LET g == get_repo_path(user_id, repo_name)
        c == [Call("checkout_branch", user_id, repo_name)
                 EXCEPT !.arg = <<branch_name>>]
    IN
    IF ~g.ok THEN
        /\ last' = Rejected(c, g)
        /\ fs' = fs
    ELSE IF ~Exists(fs, g.path) THEN
        /\ last' = [Accepted(c, g) EXCEPT !.status = "error",
                        !.message = Msg("Repository not cloned")]
        /\ fs' = fs
    ELSE IF ~OpensAsRepo(fs, g.path) THEN
        /\ last' = [Accepted(c, g) EXCEPT !.status = "error",
                        !.message = Msg("InvalidGitRepositoryError")]
        /\ fs' = fs
    ELSE
        LET gitdir == Append(g.path, GitName)
            m == fs[gitdir].meta
            direct == branch_name \in m.heads
                         \/ RemoteHas(m, "origin", branch_name)
            \* except GitCommandError: repo.git.checkout(branch_name)
            byname == CheckoutByName(m, branch_name)
            after == IF direct THEN CheckedOut(m, branch_name) ELSE byname.meta
        IN
        /\ fs' = [fs EXCEPT ![gitdir] = GitNode(after)]
        /\ last' =
             IF ~direct /\ ~byname.ok
             THEN [Accepted(c, g) EXCEPT !.status = "error",
                      !.message = <<"Checkout failed", ":", " ">>]
             ELSE IF after.head = DetachedHead
             THEN \* repo.active_branch raises TypeError
                  [Accepted(c, g) EXCEPT !.status = "error",
                      !.message = Msg("TypeError")]
             ELSE [Accepted(c, g) EXCEPT !.status = "success",
                      !.message = Msg("Switched to branch"),
                      !.content = <<after.head>>]

(***************************************************************************)
(* The calls of the sequential specification: one call at a time, each     *)
(* running to its end.                                                     *)
(***************************************************************************)

\* The pairs of the calls that work on git's own state.
GitPairs == {<< <<"a">>, <<"a">> >>} \cup BadPairs

SubPaths ==
    {<<>>,
     <<".", ".", "/", ".", ".", "/", ".", ".", "/", "etc">>}
FilePaths ==
    {<<"README">>,
     <<".git", "/", "config">>,
     <<".", ".", "/", ".", ".", "/", ".", ".", "/", "etc", "/", "passwd">>}
BranchNames == {"main", "dev", "gone"}

PullRepo ==
    /\ \E pr \in GitPairs : pull_repo(pr[1], pr[2])
    /\ UNCHANGED <<inflight, request, pages, pool>>
ListFiles ==
    /\ \/ \E pr \in GoodPairs, sp \in SubPaths : list_files(pr[1], pr[2], sp)
       \/ \E pr \in BadPairs : list_files(pr[1], pr[2], <<>>)
    /\ UNCHANGED <<inflight, request, pages, pool>>
ReadFile ==
    /\ \/ \E pr \in GoodPairs, fp \in FilePaths : read_file(pr[1], pr[2], fp)
       \/ \E pr \in BadPairs : read_file(pr[1], pr[2], <<"README">>)
    /\ UNCHANGED <<inflight, request, pages, pool>>
SearchFiles ==
    /\ \E pr \in GitPairs :
          search_files(pr[1], pr[2], <<"README">>, TRUE, DefaultMaxResults)
    /\ UNCHANGED <<inflight, request, pages, pool>>
GetCommits ==
    /\ \E pr \in GitPairs : get_commits(pr[1], pr[2])
    /\ UNCHANGED <<inflight, request, pages, pool>>
GetBranches ==
    /\ \E pr \in GitPairs : get_branches(pr[1], pr[2])
    /\ UNCHANGED <<inflight, request, pages, pool>>
CheckoutBranch ==
    /\ \E pr \in GitPairs, b \in BranchNames : checkout_branch(pr[1], pr[2], b)
    /\ UNCHANGED <<inflight, request, pages, pool>>

Next ==
    \/ CloneRepo
    \/ PullRepo
    \/ ListFiles
    \/ ReadFile
    \/ IsCloned
    \/ DeleteRepo
    \/ SearchFiles
    \/ GetCommits
    \/ GetBranches
    \/ CheckoutBranch

Spec == Init /\ [][Next]_vars

(***************************************************************************)
(* The handlers of main.py hand each call to a worker thread with          *)
(* asyncio.to_thread and take no lock: the calls of requests in flight run *)
(* side by side, each a sequence of steps on the filesystem.               *)
(***************************************************************************)

\* The pair the concurrent requests name, and its repo_path.
ConcPair == << <<"a">>, <<"a">> >>
ConcPath == get_repo_path(ConcPair[1], ConcPair[2]).path

ConcOps == {"clone_repo", "pull_repo", "delete_repo", "list_files"}

\* The call of worker w ends: what it returns, or "raised".
Finish(w, status, message) ==
    [inflight EXCEPT ![w].pc = "done", ![w].status = status,
                     ![w].message = message]

At(w, op, pc) == inflight[w].op = op /\ inflight[w].pc = pc

\* A shutil.rmtree of another worker has removed a part of the tree and not
\* yet the whole.
BeingRemoved(w) ==
    \E v \in Workers \ {w} : At(v, "delete_repo", "rmtree") /\ inflight[v].removed

\* result = await asyncio.to_thread(fn, ...)
to_thread(w) ==
    /\ inflight[w].pc = "idle"
    /\ \E op \in ConcOps :
          inflight' = [inflight EXCEPT ![w] = [Idle EXCEPT !.op = op, !.pc = "start"]]
    /\ UNCHANGED <<fs, last, request, pages, pool>>

\* return result
handler_return(w) ==
    /\ inflight[w].pc = "done"
    /\ inflight' = [inflight EXCEPT ![w] = Idle]
    /\ UNCHANGED <<fs, last, request, pages, pool>>

\* pull_repo: if not repo_path.exists(): return ...
pull_exists(w) ==
    /\ At(w, "pull_repo", "start")
    /\ inflight' =
         IF ~Exists(fs, ConcPath)
         THEN Finish(w, "error", Msg("Repository not cloned"))
         ELSE [inflight EXCEPT ![w].pc = "open",
                  ![w].intact = (Subtree(fs, ConcPath)
                                   = DOMAIN ClonedTree(ConcPath, <<>>))]
    /\ UNCHANGED <<fs, last, request, pages, pool>>

\* pull_repo: repo = Repo(repo_path)
pull_open(w) ==
    /\ At(w, "pull_repo", "open")
    /\ LET seen == [inflight EXCEPT ![w].partial = @ \/ BeingRemoved(w)]
       IN  inflight' =
             IF ~OpensAsRepo(fs, ConcPath)
             THEN [seen EXCEPT ![w].pc = "done", ![w].status = "raised"]
             ELSE [seen EXCEPT ![w].pc = "pull"]
    /\ UNCHANGED <<fs, last, request, pages, pool>>

\* pull_repo: origin.pull()
pull_origin(w) ==
    /\ At(w, "pull_repo", "pull")
    /\ LET seen == [inflight EXCEPT ![w].partial = @ \/ BeingRemoved(w)]
           failed == [seen EXCEPT ![w].pc = "done", ![w].status = "error",
                         ![w].message = <<"Pull failed", ":", " ">>]
       IN  IF ~OpensAsRepo(fs, ConcPath)
           THEN inflight' = failed /\ fs' = fs
           ELSE \/ /\ fs' = PulledTree(fs, ConcPath)
                   /\ inflight' =
                        [seen EXCEPT ![w].pc = "done", ![w].status = "success",
                            ![w].message = Msg("Repository updated successfully")]
                \/ inflight' = failed /\ fs' = fs
    /\ UNCHANGED <<last, request, pages, pool>>

\* delete_repo: if not repo_path.exists(): return ...
delete_exists(w) ==
    /\ At(w, "delete_repo", "start")
    /\ inflight' =
         IF ~Exists(fs, ConcPath)
         THEN Finish(w, "error", Msg("Repository not found"))
         ELSE [inflight EXCEPT ![w].pc = "rmtree"]
    /\ UNCHANGED <<fs, last, request, pages, pool>>

\* delete_repo: shutil.rmtree(repo_path) removes one entry below repo_path
rmtree_unlink(w) ==
    /\ At(w, "delete_repo", "rmtree")
    /\ \E q \in Subtree(fs, ConcPath) \ {ConcPath} :
          /\ Children(fs, q) = {}
          /\ fs' = Restrict(fs, DOMAIN fs \ {q})
    /\ inflight' = [inflight EXCEPT ![w].removed = TRUE]
    /\ UNCHANGED <<last, request, pages, pool>>

\* delete_repo: shutil.rmtree(repo_path) removes repo_path, emptied
rmtree_rmdir(w) ==
    /\ At(w, "delete_repo", "rmtree")
    /\ Exists(fs, ConcPath)
    /\ Children(fs, ConcPath) = {}
    /\ fs' = Restrict(fs, DOMAIN fs \ {ConcPath})
    /\ inflight' = Finish(w, "success", Msg("Repository deleted"))
    /\ UNCHANGED <<last, request, pages, pool>>

\* delete_repo: except Exception as e
rmtree_raises(w) ==
    /\ At(w, "delete_repo", "rmtree")
    /\ inflight' = Finish(w, "error", Msg("OSError"))
    /\ UNCHANGED <<fs, last, request, pages, pool>>

\* list_files: if not repo_path.exists(): return ...
list_exists(w) ==
    /\ At(w, "list_files", "start")
    /\ inflight' =
         IF ~Exists(fs, ConcPath)
         THEN Finish(w, "error", Msg("Repository not cloned"))
         ELSE [inflight EXCEPT ![w].pc = "iterdir"]
    /\ UNCHANGED <<fs, last, request, pages, pool>>

\* list_files: for item in target_path.iterdir(): ...
list_iterdir(w) ==
    /\ At(w, "list_files", "iterdir")
    /\ inflight' =
         IF ~Exists(fs, ConcPath)
         THEN Finish(w, "error", Msg("FileNotFoundError"))
         ELSE [Finish(w, "success", <<>>) EXCEPT
                  ![w].files = {Name(q) : q \in {c \in Children(fs, ConcPath) :
                                                    ~IsGitName(Name(c))}}]
    /\ UNCHANGED <<fs, last, request, pages, pool>>

\* clone_repo: the check for a clone already there, and the parent's mkdir
clone_exists(w) ==
    /\ At(w, "clone_repo", "start")
    /\ IF AlreadyCloned(fs, ConcPath)
       THEN /\ inflight' = Finish(w, "exists", Msg("Repository already cloned"))
            /\ fs' = fs
       ELSE /\ inflight' = [inflight EXCEPT ![w].pc = "clone"]
            /\ fs' = MkdirParents(fs, Parent(ConcPath))
    /\ UNCHANGED <<last, request, pages, pool>>

\* clone_repo: Repo.clone_from(auth_url, repo_path)
clone_from(w) ==
    /\ At(w, "clone_repo", "clone")
    /\ \E url \in CloneUrls, tok \in AccessTokens :
          LET auth_url == AuthUrl(url, tok)
          IN  \/ /\ CanCloneInto(fs, ConcPath)
                 /\ fs' = ClonedTree(ConcPath, auth_url) @@ fs
                 /\ inflight' = Finish(w, "success",
                                       Msg("Repository cloned successfully"))
              \/ /\ fs' \in CloneLeftovers(fs, ConcPath, auth_url)
                 /\ inflight' = [inflight EXCEPT ![w].pc = "cleanup"]
    /\ UNCHANGED <<last, request, pages, pool>>

\* clone_repo: except GitCommandError as e
clone_cleanup(w) ==
    /\ At(w, "clone_repo", "cleanup")
    /\ \E out \in Cleanup(fs, ConcPath) :
          /\ fs' = out.fs
          /\ inflight' = IF out.raised THEN Finish(w, "raised", <<>>)
                         ELSE Finish(w, "error", ClonePrefix)
    /\ UNCHANGED <<last, request, pages, pool>>

ToThread == \E w \in Workers : to_thread(w)
HandlerReturn == \E w \in Workers : handler_return(w)
PullExists == \E w \in Workers : pull_exists(w)
PullOpen == \E w \in Workers : pull_open(w)
PullOrigin == \E w \in Workers : pull_origin(w)
DeleteExists == \E w \in Workers : delete_exists(w)
RmtreeUnlink == \E w \in Workers : rmtree_unlink(w)
RmtreeRmdir == \E w \in Workers : rmtree_rmdir(w)
RmtreeRaises == \E w \in Workers : rmtree_raises(w)
ListExists == \E w \in Workers : list_exists(w)
ListIterdir == \E w \in Workers : list_iterdir(w)
CloneExists == \E w \in Workers : clone_exists(w)
CloneFrom == \E w \in Workers : clone_from(w)
CloneCleanup == \E w \in Workers : clone_cleanup(w)

ConcNext ==
    \/ ToThread
    \/ HandlerReturn
    \/ PullExists
    \/ PullOpen
    \/ PullOrigin
    \/ DeleteExists
    \/ RmtreeUnlink
    \/ RmtreeRmdir
    \/ RmtreeRaises
    \/ ListExists
    \/ ListIterdir
    \/ CloneExists
    \/ CloneFrom
    \/ CloneCleanup

ConcSpec == Init /\ [][ConcNext]_vars

(***************************************************************************)
(* clone_repo and delete_repo of one pair, with access tokens of more than *)
(* one shape.                                                              *)
(***************************************************************************)

ScrubTokens == {<<"t">>, <<"*">>, <<":">>, <<"t", "t">>, <<"t", "*">>}

ScrubClone ==
    /\ \E url \in CloneUrls, tok \in ScrubTokens :
          clone_repo(url, tok, ConcPair[1], ConcPair[2])
    /\ UNCHANGED <<inflight, request, pages, pool>>

ScrubDelete ==
    /\ delete_repo(ConcPair[1], ConcPair[2])
    /\ UNCHANGED <<inflight, request, pages, pool>>

ScrubNext ==
    \/ ScrubClone
    \/ ScrubDelete

ScrubSpec == Init /\ [][ScrubNext]_vars

(***************************************************************************)
(* The handlers of main.py as a request reaches them: with the session     *)
(* token get_token would find in it, or with none.  `request` keeps the    *)
(* token and the status of the response.                                   *)
(***************************************************************************)

RequestTokens == {<<>>, <<"s">>}
AuthPairs == {<< <<"a">>, <<"a">> >>, << <<>>, <<"a">> >>}

\* if not all([...]): return {"status": "error", "message": "Missing required fields"}
MissingFields(op, tok, fields) ==
    /\ \E i \in DOMAIN fields : fields[i] = <<>>
    /\ last' = [Call(op, fields[1], fields[2]) EXCEPT !.status = "error",
                    !.message = Msg("Missing required fields")]
    /\ request' = [token |-> tok, status |-> "error"]
    /\ fs' = fs

\* The response of a handler that wraps its call in try / except Exception.
Caught(tok) ==
    request' = [token |-> tok,
                status |-> IF last'.status = "raised" THEN "error"
                           ELSE last'.status]

\* The response of a handler that lets the exception of its call through.
Uncaught(tok) == request' = [token |-> tok, status |-> last'.status]

api_clone_repo(tok, clone_url, access_token, user_id, repo_name) ==
    \/ MissingFields("clone_repo", tok, <<user_id, repo_name, clone_url, access_token>>)
    \/ /\ \A x \in {clone_url, access_token, user_id, repo_name} : x # <<>>
       /\ clone_repo(clone_url, access_token, user_id, repo_name)
       /\ Caught(tok)

api_pull_repo(tok, user_id, repo_name) ==
    \/ MissingFields("pull_repo", tok, <<user_id, repo_name>>)
    \/ /\ user_id # <<>> /\ repo_name # <<>>
       /\ pull_repo(user_id, repo_name)
       /\ Caught(tok)

api_list_files(tok, user_id, repo_name, path) ==
    list_files(user_id, repo_name, path) /\ Uncaught(tok)

api_read_file(tok, user_id, repo_name, path) ==
    read_file(user_id, repo_name, path) /\ Uncaught(tok)

api_repo_status(tok, user_id, repo_name) ==
    is_cloned(user_id, repo_name) /\ Uncaught(tok)

api_delete_repo(tok, user_id, repo_name) ==
    \/ MissingFields("delete_repo", tok, <<user_id, repo_name>>)
    \/ /\ user_id # <<>> /\ repo_name # <<>>
       /\ delete_repo(user_id, repo_name)
       /\ Caught(tok)

api_search_files(tok, user_id, repo_name, query) ==
    IF Len(query) < 2
    THEN /\ last' = [Call("search_files", user_id, repo_name) EXCEPT
                        !.arg = query, !.status = "error",
                        !.message = Msg("Query must be at least 2 characters")]
         /\ request' = [token |-> tok, status |-> "error"]
         /\ fs' = fs
    ELSE search_files(user_id, repo_name, query, TRUE, DefaultMaxResults)
         /\ Uncaught(tok)

api_get_commits(tok, user_id, repo_name) ==
    get_commits(user_id, repo_name) /\ Uncaught(tok)

api_get_branches(tok, user_id, repo_name) ==
    get_branches(user_id, repo_name) /\ Uncaught(tok)

api_checkout_branch(tok, user_id, repo_name, branch_name) ==
    \/ MissingFields("checkout_branch", tok, <<user_id, repo_name>>)
    \/ /\ user_id # <<>> /\ repo_name # <<>>
       /\ checkout_branch(user_id, repo_name, branch_name)
       /\ Caught(tok)

ApiCloneRepo ==
    /\ \E tok \in RequestTokens, pr \in AuthPairs, url \in CloneUrls,
          at \in AccessTokens \cup {<<>>} :
          api_clone_repo(tok, url, at, pr[1], pr[2])
    /\ UNCHANGED <<inflight, pages, pool>>
ApiPullRepo ==
    /\ \E tok \in RequestTokens, pr \in AuthPairs : api_pull_repo(tok, pr[1], pr[2])
    /\ UNCHANGED <<inflight, pages, pool>>
ApiListFiles ==
    /\ \E tok \in RequestTokens, pr \in AuthPairs :
          api_list_files(tok, pr[1], pr[2], <<>>)
    /\ UNCHANGED <<inflight, pages, pool>>
ApiReadFile ==
    /\ \E tok \in RequestTokens, pr \in AuthPairs :
          api_read_file(tok, pr[1], pr[2], <<"README">>)
    /\ UNCHANGED <<inflight, pages, pool>>
ApiRepoStatus ==
    /\ \E tok \in RequestTokens, pr \in AuthPairs : api_repo_status(tok, pr[1], pr[2])
    /\ UNCHANGED <<inflight, pages, pool>>
ApiDeleteRepo ==
    /\ \E tok \in RequestTokens, pr \in AuthPairs : api_delete_repo(tok, pr[1], pr[2])
    /\ UNCHANGED <<inflight, pages, pool>>
ApiSearchFiles ==
    /\ \E tok \in RequestTokens, pr \in AuthPairs, q \in {<<"R">>, <<"R", "E">>} :
          api_search_files(tok, pr[1], pr[2], q)
    /\ UNCHANGED <<inflight, pages, pool>>
ApiGetCommits ==
    /\ \E tok \in RequestTokens, pr \in AuthPairs : api_get_commits(tok, pr[1], pr[2])
    /\ UNCHANGED <<inflight, pages, pool>>
ApiGetBranches ==
    /\ \E tok \in RequestTokens, pr \in AuthPairs : api_get_branches(tok, pr[1], pr[2])
    /\ UNCHANGED <<inflight, pages, pool>>
ApiCheckoutBranch ==
    /\ \E tok \in RequestTokens, pr \in AuthPairs, b \in {"main", "dev"} :
          api_checkout_branch(tok, pr[1], pr[2], b)
    /\ UNCHANGED <<inflight, pages, pool>>

AuthNext ==
    \/ ApiCloneRepo
    \/ ApiPullRepo
    \/ ApiListFiles
    \/ ApiReadFile
    \/ ApiRepoStatus
    \/ ApiDeleteRepo
    \/ ApiSearchFiles
    \/ ApiGetCommits
    \/ ApiGetBranches
    \/ ApiCheckoutBranch

AuthSpec == Init /\ [][AuthNext]_vars

(***************************************************************************)
(* The branches of one working copy: clone_repo, checkout_branch,          *)
(* get_branches and delete_repo of one pair, and a second remote added to  *)
(* the working copy with git itself.                                       *)
(***************************************************************************)

CheckoutNames == {"main", "dev", "up", "v1", "gone"}

BranchClone ==
    /\ \E url \in CloneUrls, tok \in AccessTokens :
          clone_repo(url, tok, ConcPair[1], ConcPair[2])
    /\ UNCHANGED <<inflight, request, pages, pool>>

\* git remote add upstream <url>; git fetch upstream, run in the working copy
BranchRemoteAdd ==
    /\ OpensAsRepo(fs, ConcPath)
    /\ LET gitdir == Append(ConcPath, GitName)
       IN  /\ Len(fs[gitdir].meta.remotes) = 1
           /\ fs' = [fs EXCEPT ![gitdir].meta.remotes = Append(@, Upstream)]
    /\ last' = NoCall
    /\ UNCHANGED <<inflight, request, pages, pool>>

BranchCheckout ==
    /\ \E b \in CheckoutNames : checkout_branch(ConcPair[1], ConcPair[2], b)
    /\ UNCHANGED <<inflight, request, pages, pool>>

BranchGetBranches ==
    /\ get_branches(ConcPair[1], ConcPair[2])
    /\ UNCHANGED <<inflight, request, pages, pool>>

BranchDelete ==
    /\ delete_repo(ConcPair[1], ConcPair[2])
    /\ UNCHANGED <<inflight, request, pages, pool>>

BranchNext ==
    \/ BranchClone
    \/ BranchRemoteAdd
    \/ BranchCheckout
    \/ BranchGetBranches
    \/ BranchDelete

BranchSpec == Init /\ [][BranchNext]_vars

(***************************************************************************)
(* page_ops: the rows of table branch_pages, in the order they were        *)
(* inserted, and the calls that read and write them.                       *)
(***************************************************************************)

\* The pools aiomysql.create_pool is asked for in one run.
MaxPools == 2

PoolCall(op) == [NoCall EXCEPT !.op = op]

\* if _pool is not None: return _pool
init_pool_keeps ==
    /\ pool.held # <<>>
    /\ pool' = pool
    /\ last' = [PoolCall("init_pool") EXCEPT !.status = "success",
                    !.given = pool.held]

\* _pool = await aiomysql.create_pool(...); return _pool
init_pool_creates ==
    /\ pool.held = <<>>
    /\ Len(pool.made) < MaxPools
    /\ pool' = [held |-> <<Len(pool.made) + 1>>,
                made |-> Append(pool.made, "open")]
    /\ last' = [PoolCall("init_pool") EXCEPT !.status = "success",
                    !.given = <<Len(pool.made) + 1>>]

\* aiomysql.create_pool raises: logger.exception(...); raise
init_pool_fails ==
    /\ pool.held = <<>>
    /\ pool' = pool
    /\ last' = [PoolCall("init_pool") EXCEPT !.status = "raised",
                    !.message = Msg("OperationalError")]

close_pool_forgets(p) == [held |-> <<>>, made |-> p.made]

\* _pool.close(); await _pool.wait_closed(); _pool = None
close_pool_closes(p) ==
    [held |-> <<>>, made |-> [p.made EXCEPT ![p.held[1]] = "closed"]]

close_pool ==
    /\ pool' = IF pool.held = <<>> THEN pool ELSE close_pool_closes(pool)
    /\ last' = [PoolCall("close_pool") EXCEPT !.status = "success"]

get_pool ==
    /\ pool' = pool
    /\ last' = IF pool.held = <<>>
               THEN [PoolCall("get_pool") EXCEPT !.status = "raised",
                        !.message = Msg("RuntimeError")]
               ELSE [PoolCall("get_pool") EXCEPT !.status = "success",
                        !.given = pool.held]

\* database.fetchone / fetchall / execute reach get_pool through
\* get_cursor and get_connection, and acquire a connection of the pool.
Connects == pool.held # <<>> /\ pool.made[pool.held[1]] = "open"

\* except Exception as e: return {"status": "error", "message": str(e), ...}
DatabaseError(c) ==
    /\ pages' = pages
    /\ last' = [c EXCEPT !.status = "error", !.message = Msg("RuntimeError")]

PageIds == <<"u1", "u2", "u3", "u4">>
PageBranches == {"main", "dev"}
PageOwners == {[user_id |-> "1", repo_id |-> "1"]}

\* WHERE user_id = %s AND repo_id = %s AND branch_name = %s
Matches(row, user_id, repo_id, branch_name) ==
    /\ row.user_id = user_id
    /\ row.repo_id = repo_id
    /\ row.branch_name = branch_name

FetchNothing(rows, user_id, repo_id, branch_name) == <<>>

\* database.fetchone("SELECT * FROM branch_pages WHERE ...")
Fetch(rows, user_id, repo_id, branch_name) ==
    SelectSeq(rows, LAMBDA row : Matches(row, user_id, repo_id, branch_name))

InsertIntoEmptied(rows, row) == <<row>>

\* INSERT INTO branch_pages ... VALUES (...)
InsertInto(rows, row) == Append(rows, row)

\* DELETE FROM branch_pages WHERE ...
DeleteFrom(rows, user_id, repo_id, branch_name) ==
    SelectSeq(rows, LAMBDA row : ~Matches(row, user_id, repo_id, branch_name))

\* UPDATE branch_pages SET content = %s WHERE ...
UpdateContent(rows, user_id, repo_id, branch_name, content) ==
    [i \in 1..Len(rows) |->
        IF Matches(rows[i], user_id, repo_id, branch_name)
        THEN [rows[i] EXCEPT !.content = content]
        ELSE rows[i]]

\* page_id = str(uuid.uuid4()): an id no row has yet
uuid4(rows) ==
    LET used == {rows[i].id : i \in 1..Len(rows)}
        free == {k \in DOMAIN PageIds : PageIds[k] \notin used}
    IN  IF free = {} THEN "" ELSE PageIds[CHOOSE k \in free : \A j \in free : k <= j]

PageCall(op, branch_name) ==
    [NoCall EXCEPT !.op = op, !.arg = <<branch_name>>]

\* title: Optional[str] = None, content: str = ""
NoTitle == <<>>
NoContent == <<>>

TitleIsBranch(title, branch_name) == branch_name

\* title or branch_name
TitleOr(title, branch_name) ==
    IF title = NoTitle \/ title[1] = "" THEN branch_name ELSE title[1]

\* database.fetchone("SELECT * FROM branch_pages WHERE id = %s")
FetchById(rows, id) == SelectSeq(rows, LAMBDA row : row.id = id)

\* The rows, the status and the page create_branch_page leaves.
Created(rows, user_id, repo_id, branch_name, title, content) ==
    LET existing == Fetch(rows, user_id, repo_id, branch_name)
        page_id == uuid4(rows)
        inserted == InsertInto(rows,
                       [id |-> page_id, user_id |-> user_id, repo_id |-> repo_id,
                        branch_name |-> branch_name,
                        title |-> TitleOr(title, branch_name),
                        content |-> content])
    IN  IF existing # <<>>
        THEN [rows |-> rows, status |-> "exists", page |-> <<existing[1]>>]
        ELSE [rows |-> inserted, status |-> "success",
              page |-> FetchById(inserted, page_id)]

create_branch_page(user_id, repo_id, branch_name, title, content) ==
    IF ~Connects THEN DatabaseError(PageCall("create_branch_page", branch_name))
    ELSE
    LET r == Created(pages, user_id, repo_id, branch_name, title, content)
    IN  /\ pages' = r.rows
        /\ last' = [PageCall("create_branch_page", branch_name)
                       EXCEPT !.status = r.status,
                              !.value = (r.status = "success"),
                              !.given = <<[user_id |-> user_id, repo_id |-> repo_id,
                                           title |-> title, content |-> content]>>,
                              !.page = r.page]

get_branch_page(user_id, repo_id, branch_name) ==
    IF ~Connects THEN DatabaseError(PageCall("get_branch_page", branch_name))
    ELSE
    LET found == Fetch(pages, user_id, repo_id, branch_name)
    IN  /\ pages' = pages
        /\ last' = IF found = <<>>
                   THEN [PageCall("get_branch_page", branch_name)
                            EXCEPT !.status = "not_found"]
                   ELSE [PageCall("get_branch_page", branch_name)
                            EXCEPT !.status = "success",
                                   !.content = found[1].content]

\* title is None; content is None or a text
update_branch_page(user_id, repo_id, branch_name, content) ==
    IF ~Connects THEN DatabaseError(PageCall("update_branch_page", branch_name))
    ELSE
    LET found == Fetch(pages, user_id, repo_id, branch_name)
        c == PageCall("update_branch_page", branch_name)
    IN  IF found = <<>>
        THEN /\ pages' = pages
             /\ last' = [c EXCEPT !.status = "not_found"]
        ELSE IF content = <<>>
        THEN /\ pages' = pages
             /\ last' = [c EXCEPT !.status = "success",
                            !.message = Msg("No changes made"),
                            !.content = found[1].content]
        ELSE /\ pages' = UpdateContent(pages, user_id, repo_id, branch_name, content[1])
             /\ last' = [c EXCEPT !.status = "success",
                            !.message = Msg("Page updated successfully"),
                            !.content = content[1]]

list_branch_pages(user_id, repo_id) ==
    IF ~Connects THEN DatabaseError(PageCall("list_branch_pages", ""))
    ELSE
    /\ pages' = pages
    /\ last' = [PageCall("list_branch_pages", "") EXCEPT
                   !.status = "success",
                   !.reads = {<<pages[i].branch_name>> :
                                 i \in {k \in 1..Len(pages) :
                                           /\ pages[k].user_id = user_id
                                           /\ pages[k].repo_id = repo_id}}]

ensure_branch_page(user_id, repo_id, branch_name) ==
    IF ~Connects THEN DatabaseError(PageCall("ensure_branch_page", branch_name))
    ELSE
    LET c == [PageCall("ensure_branch_page", branch_name) EXCEPT
                 !.given = <<[user_id |-> user_id, repo_id |-> repo_id]>>]
    IN  IF Fetch(pages, user_id, repo_id, branch_name) # <<>>
        THEN /\ pages' = pages
             /\ last' = [c EXCEPT !.status = "exists",
                            !.page = <<Fetch(pages, user_id, repo_id, branch_name)[1]>>]
        ELSE LET r == Created(pages, user_id, repo_id, branch_name, NoTitle, NoContent)
             IN  /\ pages' = r.rows
                 /\ last' = [c EXCEPT !.status = "success",
                                !.value = (r.status = "success"),
                                !.page = r.page]

delete_branch_page(user_id, repo_id, branch_name) ==
    IF ~Connects THEN DatabaseError(PageCall("delete_branch_page", branch_name))
    ELSE
    LET c == PageCall("delete_branch_page", branch_name)
    IN  IF Fetch(pages, user_id, repo_id, branch_name) = <<>>
        THEN /\ pages' = pages
             /\ last' = [c EXCEPT !.status = "not_found"]
        ELSE /\ pages' = DeleteFrom(pages, user_id, repo_id, branch_name)
             /\ last' = [c EXCEPT !.status = "success"]

CreateBranchPage ==
    /\ \E o \in PageOwners, b \in PageBranches :
          create_branch_page(o.user_id, o.repo_id, b, NoTitle, NoContent)
    /\ UNCHANGED <<fs, inflight, request, pool>>
GetBranchPage ==
    /\ \E o \in PageOwners, b \in PageBranches :
          get_branch_page(o.user_id, o.repo_id, b)
    /\ UNCHANGED <<fs, inflight, request, pool>>
UpdateBranchPage ==
    /\ \E o \in PageOwners, b \in PageBranches, content \in {<<>>, << <<"C">> >>} :
          update_branch_page(o.user_id, o.repo_id, b, content)
    /\ UNCHANGED <<fs, inflight, request, pool>>
ListBranchPages ==
    /\ \E o \in PageOwners : list_branch_pages(o.user_id, o.repo_id)
    /\ UNCHANGED <<fs, inflight, request, pool>>
EnsureBranchPage ==
    /\ \E o \in PageOwners, b \in PageBranches :
          ensure_branch_page(o.user_id, o.repo_id, b)
    /\ UNCHANGED <<fs, inflight, request, pool>>
DeleteBranchPage ==
    /\ \E o \in PageOwners, b \in PageBranches :
          delete_branch_page(o.user_id, o.repo_id, b)
    /\ UNCHANGED <<fs, inflight, request, pool>>

\* The calls of git_ops on the working copy the notes are about.
PageClone ==
    /\ \E url \in CloneUrls, tok \in AccessTokens :
          clone_repo(url, tok, ConcPair[1], ConcPair[2])
    /\ UNCHANGED <<inflight, request, pages, pool>>
PagePull ==
    /\ pull_repo(ConcPair[1], ConcPair[2])
    /\ UNCHANGED <<inflight, request, pages, pool>>
PageCheckout ==
    /\ \E b \in PageBranches :
          api_checkout_branch(<<"s">>, ConcPair[1], ConcPair[2], b)
    /\ UNCHANGED <<inflight, pages, pool>>
PageDeleteRepo ==
    /\ delete_repo(ConcPair[1], ConcPair[2])
    /\ UNCHANGED <<inflight, request, pages, pool>>

PageNext ==
    \/ CreateBranchPage
    \/ GetBranchPage
    \/ UpdateBranchPage
    \/ ListBranchPages
    \/ EnsureBranchPage
    \/ DeleteBranchPage
    \/ PageClone
    \/ PagePull
    \/ PageCheckout
    \/ PageDeleteRepo

\* The state after init_pool() made the pool at startup.
PoolHeld == [held |-> <<1>>, made |-> <<"open">>]

PageInit ==
    /\ fs = InitFs
    /\ last = NoCall
    /\ inflight = [w \in Workers |-> Idle]
    /\ request = NoRequest
    /\ pages = <<>>
    /\ pool = PoolHeld

PageSpec == PageInit /\ [][PageNext]_vars

(***************************************************************************)
(* page_ops alone, called with every title and content.                    *)
(***************************************************************************)

NoteTitles == {NoTitle, <<"">>, <<"T">>}
NoteContents == {NoContent, <<"C">>}

NoteCreate ==
    /\ \E o \in PageOwners, b \in PageBranches,
          title \in NoteTitles, content \in NoteContents :
          create_branch_page(o.user_id, o.repo_id, b, title, content)
    /\ UNCHANGED <<fs, inflight, request, pool>>

NoteNext ==
    \/ NoteCreate
    \/ GetBranchPage
    \/ UpdateBranchPage
    \/ ListBranchPages
    \/ EnsureBranchPage
    \/ DeleteBranchPage

NoteSpec == PageInit /\ [][NoteNext]_vars

(***************************************************************************)
(* database: the pool, from the import of the module on, and page_ops      *)
(* calls with and without a pool.                                          *)
(***************************************************************************)

InitPool ==
    /\ \/ init_pool_keeps
       \/ init_pool_creates
       \/ init_pool_fails
    /\ UNCHANGED <<fs, inflight, request, pages>>
ClosePool ==
    /\ close_pool
    /\ UNCHANGED <<fs, inflight, request, pages>>
GetPool ==
    /\ get_pool
    /\ UNCHANGED <<fs, inflight, request, pages>>

PoolNext ==
    \/ InitPool
    \/ ClosePool
    \/ GetPool
    \/ CreateBranchPage
    \/ GetBranchPage
    \/ EnsureBranchPage
    \/ DeleteBranchPage

PoolSpec == Init /\ [][PoolNext]_vars

(***************************************************************************)
(* create_branch_page and ensure_branch_page as coroutines of one event    *)
(* loop: a step runs a coroutine from one await of the database to the     *)
(* next.  `inflight` holds the coroutines.                                 *)
(***************************************************************************)

RaceOps == {"create_branch_page", "ensure_branch_page"}
RaceOwner == CHOOSE o \in PageOwners : TRUE

NotesOf(rows, branch_name) ==
    Fetch(rows, RaceOwner.user_id, RaceOwner.repo_id, branch_name)

\* The call starts: ensure_branch_page awaits get_branch_page's SELECT,
\* create_branch_page its own.
page_call(w) ==
    /\ inflight[w].pc = "idle"
    /\ \E op \in RaceOps, b \in PageBranches :
          inflight' = [inflight EXCEPT ![w] =
              [Idle EXCEPT !.op = op, !.arg = <<b>>,
                  !.pc = IF op = "ensure_branch_page" THEN "get" ELSE "select"]]
    /\ UNCHANGED <<fs, last, request, pages, pool>>

\* ensure_branch_page: result = await get_branch_page(...)
ensure_get(w) ==
    /\ At(w, "ensure_branch_page", "get")
    /\ inflight' =
         IF NotesOf(pages, inflight[w].arg[1]) # <<>>
         THEN [inflight EXCEPT ![w].pc = "done", ![w].status = "exists",
                  ![w].created = FALSE]
         ELSE [inflight EXCEPT ![w].pc = "select"]
    /\ UNCHANGED <<fs, last, request, pages, pool>>

\* create_branch_page: existing = await database.fetchone(...)
create_select(w) ==
    /\ inflight[w].op \in RaceOps
    /\ inflight[w].pc = "select"
    /\ inflight' =
         IF NotesOf(pages, inflight[w].arg[1]) # <<>>
         THEN [inflight EXCEPT ![w].pc = "done",
                  ![w].status = IF inflight[w].op = "ensure_branch_page"
                                THEN "success" ELSE "exists",
                  ![w].created = FALSE]
         ELSE [inflight EXCEPT ![w].pc = "insert"]
    /\ UNCHANGED <<fs, last, request, pages, pool>>

\* create_branch_page: await database.execute("INSERT INTO branch_pages ...")
\* and the SELECT by id after it.  The keys of the table are not in the
\* source: the statement inserts the row whatever the table holds.
create_insert(w) ==
    /\ inflight[w].op \in RaceOps
    /\ inflight[w].pc = "insert"
    /\ pages' = InsertInto(pages,
                    [id |-> uuid4(pages), user_id |-> RaceOwner.user_id,
                     repo_id |-> RaceOwner.repo_id,
                     branch_name |-> inflight[w].arg[1],
                     title |-> TitleOr(NoTitle, inflight[w].arg[1]),
                     content |-> NoContent])
    /\ inflight' = [inflight EXCEPT ![w].pc = "done", ![w].status = "success",
                       ![w].created = TRUE]
    /\ UNCHANGED <<fs, last, request, pool>>

\* The caller has the result.
page_return(w) ==
    /\ inflight[w].op \in RaceOps
    /\ inflight[w].pc = "done"
    /\ inflight' = [inflight EXCEPT ![w] = Idle]
    /\ UNCHANGED <<fs, last, request, pages, pool>>

PageCallStarts == \E w \in Workers : page_call(w)
EnsureGet == \E w \in Workers : ensure_get(w)
CreateSelect == \E w \in Workers : create_select(w)
CreateInsert == \E w \in Workers : create_insert(w)
PageReturn == \E w \in Workers : page_return(w)

RaceNext ==
    \/ PageCallStarts
    \/ EnsureGet
    \/ CreateSelect
    \/ CreateInsert
    \/ PageReturn

RaceSpec == PageInit /\ [][RaceNext]_vars

(***************************************************************************)
(* list_files, read_file and search_files on every content a working copy  *)
(* can have.                                                               *)
(***************************************************************************)

InvalidByte == "xFF"

\* What a remote repository can hold besides its control data: for each
\* name the node, and the files below it.
TreePool ==
    {[path |-> << <<"d">> >>, node |-> DirNode],
     [path |-> << <<"C">> >>, node |-> DirNode],
     [path |-> << <<"d">>, <<"a">> >>, node |-> FileNode(<<"b", "\n", "q">>)],
     [path |-> << <<"a">> >>,
      node |-> FileNode(<<"q", "\n", "b", "Q", "\r", "\n", "c">>)],
     [path |-> << <<"B">> >>, node |-> FileNode(<<InvalidByte, "q">>)],
     [path |-> << <<".git", "ignore">> >>, node |-> FileNode(<<"c">>)],
     [path |-> << <<"q", ".", "PNG">> >>, node |-> FileNode(<<"b">>)]}

\* A subset of the pool is a tree when it holds the directory of each file.
IsTree(S) ==
    \A e \in S : Len(e.path) > 1 =>
        \E d \in S : d.path = Parent(e.path) /\ d.node = DirNode

\* The filesystem after a clone of a remote repository that holds S.
TreeFs(S) ==
    [q \in {ConcPath \o e.path : e \in S} |->
        (CHOOSE e \in S : ConcPath \o e.path = q).node]
    @@ (ConcPath :> DirNode)
    @@ ControlDir(ConcPath, CHOOSE url \in CloneUrls : TRUE)
    @@ MkdirParents(InitFs, ConcPath)

TreeInit ==
    /\ fs \in {TreeFs(S) : S \in {T \in SUBSET TreePool : IsTree(T)}}
    /\ last = NoCall
    /\ inflight = [w \in Workers |-> Idle]
    /\ request = NoRequest
    /\ pages = <<>>
    /\ pool = NoPool

TreeSubPaths == {<<>>, <<"d">>}

\* The three calls leave the tree as it is: each is applied to each tree
\* once.
TreeListFiles ==
    /\ last = NoCall
    /\ \E sp \in TreeSubPaths : list_files(ConcPair[1], ConcPair[2], sp)
    /\ UNCHANGED <<inflight, request, pages, pool>>

TreeFilePaths ==
    {<<"a">>, <<"B">>, <<"q", ".", "PNG">>, <<".git", "ignore">>,
     <<"d", "/", "a">>, <<"d">>, <<"c">>}

TreeReadFile ==
    /\ last = NoCall
    /\ \E fp \in TreeFilePaths : read_file(ConcPair[1], ConcPair[2], fp)
    /\ UNCHANGED <<inflight, request, pages, pool>>

TreeQueries == {<<"q">>, <<"A">>, <<"b">>}
TreeMaxResults == {0, 1, 2, DefaultMaxResults}

TreeSearchFiles ==
    /\ last = NoCall
    /\ \E query \in TreeQueries, search_content \in BOOLEAN,
          max_results \in TreeMaxResults :
          search_files(ConcPair[1], ConcPair[2], query, search_content, max_results)
    /\ UNCHANGED <<inflight, request, pages, pool>>

TreeNext ==
    \/ TreeListFiles
    \/ TreeReadFile
    \/ TreeSearchFiles

TreeSpec == TreeInit /\ [][TreeNext]_vars

(***************************************************************************)
(* Properties                                                              *)
(***************************************************************************)

\* What the properties say of identifiers and working copies, stated on
\* their own and not through the operators of the model.
InvalidIdentifier(id) ==
    \/ id = <<>>
    \/ \E i \in 1..Len(id) : id[i] = "/" \/ id[i] = "\\"
    \/ \E i \in 1..(Len(id) - 1) : id[i] = "." /\ id[i + 1] = "."
StorageRoot == << <<"repos">> >>
InsideStorage(q) == Len(q) > 1 /\ q[1] = <<"repos">>
HoldsWorkingCopy(f, p) == p \in DOMAIN f /\ Append(p, <<".git">>) \in DOMAIN f
SamePair(c, d) == c.user_id = d.user_id /\ c.repo_name = d.repo_name

\* C1: list_files and read_file never enumerate or read a location outside
\* the storage root, whatever sub_path they are given.
C1_ReadsStayInsideStorage ==
    last.op \in {"list_files", "read_file"} =>
        \A q \in last.reads : InsideStorage(q)

\* C2: every pair get_repo_path accepts gets exactly
\* storage_root/owner_id/repo_name, two components below the storage root.
C2_RepoPathTwoBelowRoot ==
    last.accepted =>
        /\ last.repo_path = StorageRoot \o <<last.user_id, last.repo_name>>
        /\ Len(last.repo_path) = Len(StorageRoot) + 2

\* C3: a call with an owner_id or repo_name that is empty or contains '/',
\* '\' or '..' ends in get_repo_path's ValueError before the filesystem is
\* consulted, and leaves the filesystem as it was.
C3_InvalidIdentifierRejectedBeforeIO ==
    [][(last'.op # "none"
          /\ (InvalidIdentifier(last'.user_id) \/ InvalidIdentifier(last'.repo_name)))
        => (last'.status = "raised" /\ ~last'.accepted /\ ~last'.io /\ fs' = fs)]_vars

C3_Witness ==
    /\ last.op = "clone_repo"
    /\ last.status = "raised"
    /\ ~last.io
    /\ \E i \in 1..Len(last.repo_name) : last.repo_name[i] = "\\"

\* C4: no clone_repo, delete_repo, pull_repo or checkout_branch on one
\* accepted pair changes whether the working copy of another accepted pair
\* exists, or what it holds.
WorkingCopyOf(f, pr) ==
    LET p == get_repo_path(pr[1], pr[2]).path
    IN  IF HoldsWorkingCopy(f, p)
        THEN [cloned |-> TRUE, tree |-> Restrict(f, Subtree(f, p))]
        ELSE [cloned |-> FALSE, tree |-> <<>>]
C4_OtherPairsUntouched ==
    [][\A q \in GoodPairs :
          (/\ last'.op \in {"clone_repo", "delete_repo", "pull_repo",
                             "checkout_branch"}
           /\ last'.accepted
           /\ <<last'.user_id, last'.repo_name>> # q)
          => WorkingCopyOf(fs', q) = WorkingCopyOf(fs, q)]_vars

\* C5: clone_repo on a pair that holds a working copy answers 'exists' and
\* changes nothing; so a clone_repo right after a successful clone_repo of the
\* same pair answers 'exists' and leaves the working copy as the first made it.
C5_CloneIdempotent ==
    [][(last'.op = "clone_repo" /\ last'.accepted)
        => /\ HoldsWorkingCopy(fs, last'.repo_path)
                => (last'.status = "exists" /\ fs' = fs)
           /\ (last.op = "clone_repo" /\ last.status = "success"
                 /\ SamePair(last, last'))
                => (last'.status = "exists" /\ fs' = fs)]_vars

C5_Witness ==
    /\ last.op = "clone_repo"
    /\ last.status = "exists"
    /\ HoldsWorkingCopy(fs, last.repo_path)

C9_CredentialNeverOnDisk ==
    (last.op = "clone_repo" /\ last.access_token # <<>>) =>
        \A q \in DOMAIN fs :
            /\ ~Contains(fs[q].data, last.access_token)
            /\ ~Contains(fs[q].meta.url, last.access_token)


(***************************************************************************)
(* Calls in flight side by side                                            *)
(***************************************************************************)

MutatingOps == {"clone_repo", "pull_repo", "checkout_branch", "delete_repo"}
ReadOnlyOps ==
    {"list_files", "read_file", "search_files", "get_branches", "get_commits"}
InProgress(w) == inflight[w].pc \notin {"idle", "done"}

\* C7: a pull and a delete of the same pair in flight together serialize:
\* no step of the pull runs against a tree that the delete has removed a
\* part of, and a pull whose existence check found the whole working copy
\* ends as a pull with no delete beside it ends, with success or with git's
\* own failure.
C7_PullDeleteSerialize ==
    \A w \in Workers :
        inflight[w].op = "pull_repo" =>
            /\ ~inflight[w].partial
            /\ (inflight[w].pc = "done" /\ inflight[w].intact) =>
                   inflight[w].status \in {"success", "error"}

\* C8: at every moment at most one mutating call is in progress on a pair,
\* and no read-only call is in progress beside a mutating one.
C8_MutationsExclusive ==
    \A w, v \in Workers :
        (w # v /\ InProgress(w) /\ InProgress(v)
             /\ inflight[w].op \in MutatingOps) =>
            inflight[v].op \notin MutatingOps \cup ReadOnlyOps

(***************************************************************************)
(* The message of a failed clone                                           *)
(***************************************************************************)

ErrorOfClone == last.op = "clone_repo" /\ last.status = "error"
HasStar(s) == \E i \in 1..Len(s) : s[i] = "*"
AfterPrefix(m) == SubSeq(m, Len(ClonePrefix) + 1, Len(m))

\* C10 as stated: for every non-empty access_token, the message of an error
\* result of clone_repo does not contain the access_token.
C10_MessageHidesToken ==
    (ErrorOfClone /\ last.access_token # <<>>) =>
        ~Contains(last.message, last.access_token)

\* C10, amended: for every non-empty access_token that holds no '*', the
\* text after the prefix "Clone failed: " of the message of an error result
\* of clone_repo does not contain the access_token: where the underlying
\* error text holds it the placeholder stands, and a text that does not hold
\* it is passed on as it is.
C10_ErrorTextHidesStarlessToken ==
    (ErrorOfClone /\ last.access_token # <<>> /\ ~HasStar(last.access_token)) =>
        /\ SubSeq(last.message, 1, Len(ClonePrefix)) = ClonePrefix
        /\ ~Contains(AfterPrefix(last.message), last.access_token)
        /\ Contains(last.content, last.access_token) =>
               Contains(AfterPrefix(last.message), <<"*", "*", "*">>)
        /\ ~Contains(last.content, last.access_token) =>
               AfterPrefix(last.message) = last.content

\* A failed clone whose underlying error text holds the token twice, in the
\* URL and in git's standard error.
C10_Witness ==
    /\ ErrorOfClone
    /\ last.access_token = <<"t">>
    /\ \E i, j \in 1..Len(last.content) :
          /\ i < j
          /\ MatchAt(last.content, i, last.access_token)
          /\ MatchAt(last.content, j, last.access_token)
    /\ ~Contains(last.message, last.access_token)

(***************************************************************************)
(* What later calls hand back of the credential of the clone               *)
(***************************************************************************)

\* The credentials that clones have left in the control directory at p.
CredentialsOf(f, p) ==
    IF Append(p, GitName) \in DOMAIN f
    THEN {tok \in AccessTokens : Contains(f[Append(p, GitName)].meta.url, tok)}
    ELSE {}

\* C11: after a clone made with a credential, no result of a later
\* pull_repo, checkout_branch, get_branches, read_file or search_files on
\* the pair holds the credential, in its message or in the content it
\* returns.
C11_NoResultHoldsCredential ==
    (last.op \in {"pull_repo", "checkout_branch", "get_branches",
                  "read_file", "search_files"} /\ last.accepted) =>
        \A tok \in CredentialsOf(fs, last.repo_path) :
            /\ ~Contains(last.message, tok)
            /\ ~Contains(last.content, tok)

(***************************************************************************)
(* Requests without a credential                                           *)
(***************************************************************************)

\* C12: a request that carries no credential, neither a session token nor
\* an access token in its body, never reads from and never changes a
\* working copy: its handler leaves the filesystem as it was and its call
\* does not get as far as the filesystem.
C12_AnonymousRequestTouchesNothing ==
    [][(request'.token = <<>> /\ last'.access_token = <<>>)
          => (fs' = fs /\ ~last'.io)]_vars

(***************************************************************************)
(* Calls on a pair with no working copy                                    *)
(***************************************************************************)

\* C13: on a pair with no working copy (its directory absent, or present
\* with no control directory) pull_repo, list_files, search_files,
\* get_commits, get_branches and checkout_branch return an error result and
\* do not raise, and the message of pull_repo is 'Repository not cloned'.
\* None of them removes a working copy, so the pair had none before the
\* call when it has none after it.
C13_NotClonedIsErrorResult ==
    (/\ last.op \in {"pull_repo", "list_files", "search_files",
                      "get_commits", "get_branches", "checkout_branch"}
     /\ last.accepted
     /\ last.user_id # Dot
     /\ last.arg \notin SubPaths \ {<<>>}
     /\ ~HoldsWorkingCopy(fs, last.repo_path)) =>
        /\ last.status = "error"
        /\ last.op = "pull_repo" => last.message = Msg("Repository not cloned")

(***************************************************************************)
(* is_cloned, delete_repo                                                  *)
(***************************************************************************)

\* C14: in every state, what is_cloned returns for a pair is true exactly
\* when the pair's directory is there now and the control directory is in
\* it: the value is that of the filesystem as it is, whatever calls came
\* before.
C14_IsClonedReadsDisk ==
    (last.op = "is_cloned" /\ last.accepted) =>
        (last.value <=> (/\ last.repo_path \in DOMAIN fs
                         /\ Append(last.repo_path, <<".git">>) \in DOMAIN fs))

\* is_cloned answered false for a directory that is there with no control
\* directory in it.
C14_Witness ==
    /\ last.op = "is_cloned"
    /\ last.accepted
    /\ ~last.value
    /\ last.repo_path \in DOMAIN fs

\* C15: delete_repo never raises.  On a directory that is there it returns
\* success with the whole directory removed, or the error result of a
\* removal that failed; on a directory that is not there it returns
\* 'Repository not found' and changes nothing.  Right after a success,
\* is_cloned of the pair is false and a second delete_repo of the pair
\* returns 'Repository not found'.
C15_DeleteRemovesAll ==
    [][/\ (last'.op = "delete_repo" /\ last'.accepted) =>
            /\ last'.status \in {"success", "error"}
            /\ (last'.repo_path \in DOMAIN fs) =>
                   /\ last'.message # Msg("Repository not found")
                   /\ last'.status = "success" =>
                          \A q \in DOMAIN fs' :
                              ~IsRelativeTo(q, last'.repo_path)
            /\ (last'.repo_path \notin DOMAIN fs) =>
                   /\ last'.status = "error"
                   /\ last'.message = Msg("Repository not found")
                   /\ fs' = fs
       /\ (/\ last.op = "delete_repo" /\ last.status = "success"
           /\ SamePair(last, last')) =>
            /\ last'.op = "is_cloned" => ~last'.value
            /\ last'.op = "delete_repo" =>
                   last'.message = Msg("Repository not found")]_vars

\* A delete_repo that found the directory of the pair and removed it.
C15_Witness ==
    /\ last.op = "delete_repo"
    /\ last.user_id = <<"a">>
    /\ last.status = "success"
    /\ last.repo_path \notin DOMAIN fs
    /\ Parent(last.repo_path) \in DOMAIN fs

(***************************************************************************)
(* Branches                                                                *)
(***************************************************************************)

ControlOf(f, p) == f[Append(p, <<".git">>)].meta
IsRepoAt(f, p) == Append(p, <<".git">>) \in DOMAIN f /\ f[Append(p, <<".git">>)].kind = "git"
OnRemote(m, r, b) ==
    \E k \in 1..Len(m.remotes[r].refs) :
        m.remotes[r].refs[k].name = <<m.remotes[r].name, "/", b>>

\* C16: checkout_branch(b) on a cloned pair.  A local b is checked out and
\* no branch is made; a b that is not local and that origin has is made a
\* local branch and checked out; both end in success with current_branch
\* b.  For a b that is neither local nor on a remote the result is an error
\* result, and the current branch and the local branches stay as they were.
C16_CheckoutBranch ==
    [][(last'.op = "checkout_branch" /\ last'.accepted
            /\ IsRepoAt(fs, last'.repo_path)) =>
         LET m == ControlOf(fs, last'.repo_path)
             n == ControlOf(fs', last'.repo_path)
             b == last'.arg[1]
             made == /\ last'.status = "success"
                     /\ last'.content = <<b>>
                     /\ n.head = b
         IN  /\ b \in m.heads => (made /\ n.heads = m.heads)
             /\ (b \notin m.heads
                   /\ \E r \in 1..Len(m.remotes) :
                         m.remotes[r].name = "origin" /\ OnRemote(m, r, b))
                  => (made /\ n.heads = m.heads \cup {b})
             /\ (b \notin m.heads
                   /\ \A r \in 1..Len(m.remotes) : ~OnRemote(m, r, b))
                  => /\ last'.status = "error"
                     /\ n.head = m.head
                     /\ n.heads = m.heads]_vars

NoTwoAlike(branches) ==
    \A i, j \in 1..Len(branches) :
        (branches[i].name = branches[j].name
            /\ branches[i].type = branches[j].type) => i = j

\* The commit of `b` on the first remote, in the order of the working
\* copy's remotes, that has it.
FirstCarrierSha(m, b) ==
    LET r == CHOOSE x \in 1..Len(m.remotes) :
                 OnRemote(m, x, b) /\ \A y \in 1..(x - 1) : ~OnRemote(m, y, b)
        k == CHOOSE x \in 1..Len(m.remotes[r].refs) :
                 m.remotes[r].refs[x].name = <<m.remotes[r].name, "/", b>>
    IN  m.remotes[r].refs[k].sha

\* C17: a successful get_branches listing has no two entries of one name and
\* type: every local branch is there once, a remote short name at most
\* once, with the commit of the first remote that has it, and no entry is
\* the HEAD of a remote.
C17_ListingHasNoDuplicates ==
    (last.op = "get_branches" /\ last.status = "success") =>
        LET m == ControlOf(fs, last.repo_path)
            listing == last.branches
        IN  /\ NoTwoAlike(listing)
            /\ \A h \in m.heads :
                  \E i \in 1..Len(listing) :
                      listing[i].name = <<h>> /\ listing[i].type = "local"
            /\ \A i \in 1..Len(listing) :
                  listing[i].type = "remote" =>
                      /\ listing[i].name # <<"HEAD">>
                      /\ Len(listing[i].name) = 1
                      /\ listing[i].commit_sha
                             = FirstCarrierSha(m, listing[i].name[1])

\* A listing of a working copy with two remotes that both have branch dev,
\* which is no local branch: dev is listed once, from origin.
C17_Witness ==
    /\ last.op = "get_branches"
    /\ last.status = "success"
    /\ Len(ControlOf(fs, last.repo_path).remotes) = 2
    /\ \A r \in 1..2 : OnRemote(ControlOf(fs, last.repo_path), r, "dev")
    /\ "dev" \notin ControlOf(fs, last.repo_path).heads
    /\ \E i \in 1..Len(last.branches) :
          /\ last.branches[i].name = <<"dev">>
          /\ last.branches[i].type = "remote"
          /\ last.branches[i].commit_sha = "o"

\* C18: in a get_branches listing a remote branch that has a local branch of
\* its name is listed too: the name has a local entry and a remote entry.
C18_RemoteListedBesideLocal ==
    (last.op = "get_branches" /\ last.status = "success") =>
        LET m == ControlOf(fs, last.repo_path)
        IN  \A h \in m.heads :
                (\E r \in 1..Len(m.remotes) : OnRemote(m, r, h)) =>
                    /\ \E i \in 1..Len(last.branches) :
                          /\ last.branches[i].name = <<h>>
                          /\ last.branches[i].type = "local"
                    /\ \E i \in 1..Len(last.branches) :
                          /\ last.branches[i].name = <<h>>
                          /\ last.branches[i].type = "remote"

(***************************************************************************)
(* Branch notes                                                            *)
(***************************************************************************)

\* The row is still in the table: same id, same user, repository and branch.
StillIn(rows, row) ==
    \E j \in 1..Len(rows) :
        /\ rows[j].id = row.id
        /\ Matches(rows[j], row.user_id, row.repo_id, row.branch_name)

\* C19: only delete_branch_page removes a branch note.  Every other call
\* (delete_repo, clone_repo, pull_repo, the checkout operation, and the
\* other calls of page_ops) leaves every row of branch_pages in the table.
C19_OnlyDeleteBranchPageRemovesNotes ==
    [][last'.op # "delete_branch_page" =>
          \A i \in 1..Len(pages) : StillIn(pages', pages[i])]_vars

\* delete_repo removed the working copy of the pair while a note of it is
\* in the table.
C19_Witness ==
    /\ last.op = "delete_repo"
    /\ last.status = "success"
    /\ last.repo_path \notin DOMAIN fs
    /\ pages # <<>>

\* C20: after a checkout of branch b through the checkout operation that
\* ended in success, branch_pages has a note for b.
C20_CheckoutMakesNote ==
    (last.op = "checkout_branch" /\ last.status = "success") =>
        \E i \in 1..Len(pages) : pages[i].branch_name = last.arg[1]

\* The title a note gets when a given title is taken as it is.
GivenTitle(title, branch_name) ==
    IF title = NoTitle THEN branch_name ELSE title[1]

\* The title a note gets when an empty title counts as no title.
NonEmptyTitle(title, branch_name) ==
    IF title = NoTitle \/ title = <<"">> THEN branch_name ELSE title[1]

\* A step of create_branch_page: with a note for the key the result is
\* 'exists' with that note and the table is unchanged; without one the table
\* gets one more row with an id no row had, the title TitleOf gives and the
\* given content, and the result is 'success'.
CreateContract(TitleOf(_, _)) ==
    last'.op = "create_branch_page" =>
        LET g == last'.given[1]
            b == last'.arg[1]
            old == Fetch(pages, g.user_id, g.repo_id, b)
        IN  IF old # <<>>
            THEN /\ last'.status = "exists"
                 /\ last'.page = <<old[1]>>
                 /\ pages' = pages
            ELSE /\ last'.status = "success"
                 /\ Len(pages') = Len(pages) + 1
                 /\ SubSeq(pages', 1, Len(pages)) = pages
                 /\ LET new == pages'[Len(pages')]
                    IN  /\ new.id \notin {pages[i].id : i \in 1..Len(pages)}
                        /\ Matches(new, g.user_id, g.repo_id, b)
                        /\ new.title = TitleOf(g.title, b)
                        /\ new.content = g.content
                        /\ last'.page = <<new>>

\* C21: create_branch_page returns 'exists' with the existing note and
\* leaves the table unchanged when the key has a note; otherwise it stores
\* exactly one new note with a fresh id, the given title (the branch name
\* when none is given) and the given content, and returns 'success'.
C21_CreateBranchPage == [][CreateContract(GivenTitle)]_vars

\* C21, amended: as C21, the title being the given title when it is not
\* empty, and the branch name when no title or an empty title is given.
C21_CreateBranchPageNonEmptyTitle == [][CreateContract(NonEmptyTitle)]_vars

\* create_branch_page was given the empty title and stored a note titled
\* with the branch name.
C21_Witness ==
    /\ last.op = "create_branch_page"
    /\ last.status = "success"
    /\ last.given[1].title = <<"">>
    /\ last.page[1].title = last.arg[1]
    /\ last.page[1] = pages[Len(pages)]

(***************************************************************************)
(* Listings                                                                *)
(***************************************************************************)

Listed == last.op = "list_files" /\ last.status = "success"

\* The directory a successful list_files listed.
ListedDir == last.repo_path \o Parts(last.arg)

\* How many entries of the listing have the name.
TimesListed(name) ==
    Cardinality({i \in 1..Len(last.files) : last.files[i].name = name})

\* C22: a successful list_files returns the entries with all directories
\* before all files and each group in case-insensitive order of name;
\* each entry has its name, its type, a size that is null for a directory
\* and the byte count for a file, and its path from the working-copy root.
C22_ListingIsSorted ==
    Listed =>
        /\ \A i, j \in 1..Len(last.files) :
              i < j =>
                /\ last.files[i].type = "file" => last.files[j].type = "file"
                /\ last.files[i].type = last.files[j].type =>
                      ~StrLess(Lower(last.files[j].name), Lower(last.files[i].name))
        /\ \A i \in 1..Len(last.files) :
              LET e == last.files[i]
                  item == last.repo_path \o e.path
              IN  /\ item \in Children(fs, ListedDir)
                  /\ e.name = Name(item)
                  /\ e.type = IF fs[item].kind = "file" THEN "file" ELSE "directory"
                  /\ e.size = IF fs[item].kind = "file"
                              THEN <<Len(fs[item].data)>> ELSE <<>>

\* A listing with two directories and two files whose order by name
\* differs from their order by code point.
C22_Witness ==
    /\ Listed
    /\ Len(last.files) >= 4
    /\ last.files[1].name = <<"C">>
    /\ last.files[2].name = <<"d">>
    /\ last.files[3].name = <<"a">>
    /\ last.files[4].name = <<"B">>

\* C23: list_files leaves out the control directory and nothing else: .git
\* is never listed, and every other entry of the directory is listed once.
C23_OnlyControlDirLeftOut ==
    Listed =>
        \A item \in Children(fs, ListedDir) :
            TimesListed(Name(item)) = IF Name(item) = GitName THEN 0 ELSE 1

\* C23, amended: list_files leaves out every entry whose name starts with
\* .git (the control directory, .gitignore, ...) and nothing else: every
\* other entry of the directory is listed once.
C23_DotGitNamesLeftOut ==
    Listed =>
        \A item \in Children(fs, ListedDir) :
            TimesListed(Name(item)) = IF IsGitName(Name(item)) THEN 0 ELSE 1

\* A listing of a directory that holds .git, .gitignore and other entries.
C23_Witness ==
    /\ Listed
    /\ last.files # <<>>
    /\ Append(ListedDir, GitName) \in DOMAIN fs
    /\ Append(ListedDir, <<".git", "ignore">>) \in DOMAIN fs

(***************************************************************************)
(* Reading a file                                                          *)
(***************************************************************************)

\* The file read_file was asked for, when it is a file of the working copy.
ReadTarget == Resolve(PathJoin(last.repo_path, last.arg))
ReadsExistingFile ==
    /\ last.op = "read_file"
    /\ last.accepted
    /\ IsRelativeTo(ReadTarget, last.repo_path)
    /\ ReadTarget \in DOMAIN fs
    /\ fs[ReadTarget].kind = "file"

\* C24: read_file on an existing file of the working copy returns success
\* with the size of the file; binary is true and content null when the
\* extension is, in any case of letters, in the binary set or the bytes
\* are not valid UTF-8; otherwise binary is false and content is the exact
\* text of the file.
C24_ReadFileBinaryOrExactText ==
    ReadsExistingFile =>
        /\ last.status = "success"
        /\ last.size = <<Len(fs[ReadTarget].data)>>
        /\ IF \/ Lower(Suffix(Name(ReadTarget))) \in BINARY_EXTENSIONS
              \/ \E i \in 1..Len(fs[ReadTarget].data) :
                    fs[ReadTarget].data[i] = InvalidByte
           THEN last.binary /\ last.content = <<>>
           ELSE ~last.binary /\ last.content = fs[ReadTarget].data

(***************************************************************************)
(* Searching                                                               *)
(***************************************************************************)

Searched == last.op = "search_files" /\ last.status = "success"

\* The files of the working copy outside its control directory.
FilesOutsideControlDir ==
    {q \in Subtree(fs, last.repo_path) :
        /\ fs[q].kind = "file"
        /\ ~IsRelativeTo(q, Append(last.repo_path, GitName))}

\* The results of a type for a file, by its path from the root.
ResultsFor(type, q) ==
    {i \in 1..Len(last.results) :
        /\ last.results[i].type = type
        /\ last.repo_path \o last.results[i].path = q}

\* The numbers, from 1, of the lines of a file that contain the query in
\* any case of letters.
MatchingLines(q) ==
    {n \in 1..Len(LinesOf(fs[q].data)) :
        Contains(Lower(LinesOf(fs[q].data)[n]), Lower(last.arg))}

Unbounded ==
    SearchResults(fs, last.given[1].order, last.repo_path, last.arg,
                  last.given[1].search_content, DefaultMaxResults)

\* C26: search_files returns at most max_results results; the list is a
\* prefix of what the search without a limit returns in the same order of
\* the walk, total is the length of the list, and the status is success
\* also when the list was cut off.
C26_AtMostMaxResults ==
    (last.op = "search_files" /\ last.accepted
        /\ last.repo_path \in DOMAIN fs) =>
        /\ last.status = "success"
        /\ Len(last.results) <= last.given[1].max_results
        /\ last.total = <<Len(last.results)>>
        /\ Len(Unbounded) < DefaultMaxResults
        /\ Len(last.results) <= Len(Unbounded)
        /\ last.results = SubSeq(Unbounded, 1, Len(last.results))
        /\ Len(last.results) < Len(Unbounded) =>
              Len(last.results) = last.given[1].max_results

\* A search cut off between two lines of one file: the result after the
\* last one returned would have been of the same file.
C26_Witness ==
    /\ Searched
    /\ Len(last.results) = 1
    /\ last.given[1].max_results = 1
    /\ Len(Unbounded) > 1
    /\ Unbounded[1].type = "content"
    /\ Unbounded[2].type = "content"
    /\ Unbounded[2].path = Unbounded[1].path

(***************************************************************************)
(* The database pool                                                       *)
(***************************************************************************)

PageOps ==
    {"create_branch_page", "get_branch_page", "update_branch_page",
     "list_branch_pages", "ensure_branch_page", "delete_branch_page"}

\* C27: the pool is held or not.  get_pool raises exactly when none is
\* held, and returns the pool held otherwise.  init_pool with a pool held
\* returns that pool and makes no other; init_pool that fails to make a
\* pool raises and leaves none held; otherwise it holds the one pool it
\* made.  close_pool with a pool held closes it and leaves none held, and
\* with none held it changes nothing and does not raise.  With no pool
\* held, get_pool raises and every call that queries ends in an error,
\* until init_pool makes a pool.
C27_PoolIsHeldOrNot ==
    [][/\ pool.held # <<>> => pool.made[pool.held[1]] = "open"
       /\ last'.op = "get_pool" =>
             /\ pool' = pool
             /\ (last'.status = "raised") <=> (pool.held = <<>>)
             /\ pool.held # <<>> =>
                   last'.status = "success" /\ last'.given = pool.held
       /\ last'.op = "init_pool" =>
             IF pool.held # <<>>
             THEN /\ pool' = pool
                  /\ last'.status = "success"
                  /\ last'.given = pool.held
             ELSE IF last'.status = "raised"
             THEN pool' = pool
             ELSE /\ last'.status = "success"
                  /\ pool'.made = Append(pool.made, "open")
                  /\ pool'.held = <<Len(pool'.made)>>
                  /\ last'.given = pool'.held
       /\ last'.op = "close_pool" =>
             /\ last'.status = "success"
             /\ pool'.held = <<>>
             /\ IF pool.held = <<>> THEN pool' = pool
                ELSE pool'.made = [pool.made EXCEPT ![pool.held[1]] = "closed"]
       /\ (last'.op \in PageOps /\ pool.held = <<>>) =>
             last'.status = "error" /\ pages' = pages
       /\ last'.op \notin {"init_pool", "close_pool"} => pool' = pool
      ]_vars

\* get_pool raised after close_pool closed the pool init_pool had made.
C27_Witness ==
    /\ last.op = "get_pool"
    /\ last.status = "raised"
    /\ pool.held = <<>>
    /\ pool.made # <<>>
    /\ pool.made[1] = "closed"

(***************************************************************************)
(* ensure_branch_page                                                      *)
(***************************************************************************)

\* The notes of the key of the ensure_branch_page call c among the rows.
NotesOfKey(rows, c) ==
    {i \in 1..Len(rows) :
        Matches(rows[i], c.given[1].user_id, c.given[1].repo_id, c.arg[1])}

Ensured(c) == c.op = "ensure_branch_page" /\ c.status # "error"

\* C28: after an ensure_branch_page that does not return an error there
\* is exactly one note for the key, which the call returns; created is true
\* exactly when the key had no note before the call.  A second call right
\* after it returns created false and the same note id, and leaves the
\* table as it is.
C28_EnsureIsIdempotent ==
    [][Ensured(last') =>
          /\ Cardinality(NotesOfKey(pages', last')) = 1
          /\ \A i \in NotesOfKey(pages', last') : last'.page = <<pages'[i]>>
          /\ last'.value <=> (NotesOfKey(pages, last') = {})
          /\ (Ensured(last) /\ last.arg = last'.arg /\ last.given = last'.given) =>
                /\ ~last'.value
                /\ last'.page[1].id = last.page[1].id
                /\ pages' = pages
      ]_vars

\* An ensure_branch_page that found the note of the key and made none.
C28_Witness ==
    /\ last.op = "ensure_branch_page"
    /\ last.status = "exists"
    /\ ~last.value
    /\ last.page # <<>>
    /\ Cardinality(NotesOfKey(pages, last)) = 1

(***************************************************************************)
(* Two clones of one pair                                                  *)
(***************************************************************************)

\* Worker v ran a clone_repo that ended in success and has not yet handed
\* its result to the handler, and the working copy it made is on disk.
CloneCompleted(v) ==
    /\ inflight[v].op = "clone_repo"
    /\ inflight[v].pc = "done"
    /\ inflight[v].status = "success"
    /\ AlreadyCloned(fs, ConcPath)
    /\ Append(ConcPath, ReadmeName) \in DOMAIN fs

\* C29: with two clone_repo calls of one pair in flight, the cleanup of the
\* call that failed does not remove the working copy the other call has
\* completed: that working copy is on disk when the successful call
\* returns.
C29_CleanupSparesOtherClone ==
    [][\A w, v \in Workers :
          (/\ w # v
           /\ At(w, "clone_repo", "cleanup")
           /\ inflight'[w].pc = "done"
           /\ CloneCompleted(v)) => AlreadyCloned(fs', ConcPath)]_vars

(***************************************************************************)
(* Two calls for one note                                                  *)
(***************************************************************************)

\* The calls in flight that ended telling they created the note of b.
ReportCreated(b) ==
    {w \in Workers :
        /\ inflight[w].op \in RaceOps
        /\ inflight[w].pc = "done"
        /\ inflight[w].arg = <<b>>
        /\ inflight[w].created}

\* C30: however create_branch_page and ensure_branch_page calls for one
\* key interleave, the table holds at most one note of the key and at most
\* one of the calls tells that it created the note.
C30_OneNotePerKey ==
    \A b \in PageBranches :
        /\ Len(NotesOf(pages, b)) <= 1
        /\ Cardinality(ReportCreated(b)) <= 1

====
